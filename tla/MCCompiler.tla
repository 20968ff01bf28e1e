----------------------------- MODULE MCCompiler -----------------------------
(***************************************************************************)
(* Small programs for Compiler.  "lib" defines the generic functions f and *)
(* g, "loader" is code that loads and unloads the others, and the rest use *)
(* the generic functions.                                                  *)
(***************************************************************************)
EXTENDS Compiler

Src(name, generics, structs, uses) ==
    [name |-> name, generics |-> generics, structs |-> structs, uses |-> uses]

Lib    == Src("lib", {"f", "g"}, {}, {})
Loader == Src("loader", {}, {}, {})
App    == Src("app", {}, {}, {<<"f", "i64">>, <<"g", "i64">>})

\* g calls f; neither calls the other; each calls the other.
Nested == [f |-> {}, g |-> {"f"}]
Flat   == [f |-> {}, g |-> {}]
Mutual == [f |-> {"g"}, g |-> {"f"}]

\* A program that is loaded, unloaded and loaded again.
ReloadSources == {"lib", "loader", "app"}
ReloadProgram ==
    [s \in ReloadSources |->
        CASE s = "lib" -> Lib [] s = "loader" -> Loader [] s = "app" -> App]

\* Two modules with a struct of the same name, both used as a type argument,
\* and a module that needs nothing of what it imports.
ClashSources == {"lib", "a", "b", "top"}
ClashProgram ==
    [s \in ClashSources |->
        CASE s = "lib" -> Src("lib", {"f"}, {}, {})
          [] s = "top" -> Src("top", {}, {}, {})
          [] s = "a" -> Src("a", {}, {"s"}, {<<"f", "s">>})
          [] s = "b" -> Src("b", {}, {"s"}, {<<"f", "s">>})]

\* A module that uses the generic function at its own struct, another that
\* does so at a struct of its own, and one that uses it at the first's.
StructSources == {"lib", "loader", "a", "b", "user"}
StructProgram ==
    [s \in StructSources |->
        CASE s = "lib" -> Src("lib", {"f"}, {}, {})
          [] s = "loader" -> Loader
          [] s = "a" -> Src("a", {}, {"s"}, {<<"f", "s">>})
          [] s = "b" -> Src("b", {}, {"t"}, {<<"f", "t">>})
          [] s = "user" -> Src("user", {}, {}, {<<"f", "s">>})]
OneGeneric == [f |-> {}]

\* A module without a name, which uses the instances of its library.
SmallSources == {"lib", "app"}
SmallProgram ==
    [s \in SmallSources |->
        IF s = "lib" THEN Lib
                     ELSE Src(NoName, {}, {}, {<<"f", "i64">>, <<"g", "i64">>})]

=============================================================================
