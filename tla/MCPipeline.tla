----------------------------- MODULE MCPipeline -----------------------------
(***************************************************************************)
(* Programs for Pipeline, most of them those of src/compiler/src/test.rs.  *)
(* The constraints of a short program are taken in many orders; those of a *)
(* long one in the order that is the reverse of the program's.             *)
(***************************************************************************)
EXTENDS Pipeline

Texts(early, late, texts)    == {[modules |-> << t >>, early |-> early, late |-> late] : t \in texts}
Modules(early, late, seqs)   == {[modules |-> s, early |-> early, late |-> late] : s \in seqs}

\* test_basics, test_conversions; programs that are refused; and what has no code.
Short == Texts(2, 2, {
  "",
  "1 +",
  "4 - 5",
  "4. + 5.5",
  "-(4 - 5)",
  "1 + true",
  "5 <= 5",
  "4 + {let a = 5; let b = 4; a}",
  "let a = 1 ; a . b",
  "foo ( 1 )",
  "-4 as u32",
  "4.5 as i32",
  "1 / 0",
  "1.5 as f64",
  "1.5 != 2.0",
  "5 = 6",
  "\"abc\"",
  "let a = () ; 1",
  "let f = + ; f(1, 2)",
  "UnsafeZeroInit ( ) ; 1",
  "struct s { a : i64 } ; struct s { b : i64 }",
  "fun f(a : ()) { 1 }",
  "sizeof ( fun ( ) )"})

Medium == Texts(1, 1, {
  \* test_and_or, test_scope, test_assignment
  "let a = 0 ; false && (a = 1; true) ; a",
  "let a = 0 ; if true || (a = 1; true) { a } else { 7 }",
  "let a = 4 ; let b = if true { let a = 5 ; a } else { 10 } ; a + b",
  "let a = 4 ; a = a + 5 ; a",
  \* a string, a union, a struct with a type variable, an instance
  "let s = \"abc\" ; s.length",
  "union u { a : i64 ; b : bool } ; let v = u.new(b : true) ; v.b",
  "union u { a : i64 ; b : bool } ; let v = u.new(b : 1) ; v.a",
  "struct box(T) { v : T } ; let b : box(i64) = box.new(1) ; b.v",
  "fun id(a : T) => T with T { a } ; id(5) + id(6)",
  \* arithmetic at the edges
  "let a = 8191 ; let b = a + 1 ; b < a",
  "((0 - 1) as u8) > (1 as u8)",
  "((0 - 1) as u16) as u8",
  "(200 as u8) as i64",
  "let a = 1.5 as f32 ; let b = a as f64 ; b * 3.",
  "!(1 > 2) && (3.5 >= 2.0)",
  \* values in branches that are thrown away, a union that is not in memory
  "fun f() { () } ; f()",
  "union u { a : i64 ; b : bool } ; fun f() { u.new(a : 5) } ; f().a"})

Long == Texts(0, 1, {
  \* test_inference, test_struct, test_return, test_while, test_arrays
  "fun blah(a : u64) { (a as i64) } ; fun blah(a : i64) { (a as u64) } ; " \o
    "let a = blah(5) ; let b = a + blah(5) ; let c = b + blah(5) ; c",
  "struct point { x : i64 ; y : i64 } ; let a = point.new(x: 5, y: 50) ; a.x = a.x + 10 ; a.y = 500 ; a.x + a.y",
  "struct point { x : i64 ; y : i64 } ; fun foo(a : point, b : point) { point.new(x: a.x + b.x, y: a.y + b.y) } ; " \o
    "let a = point.new(x: 10, y: 1) ; let b = point.new(2, 20) ; let c = foo(a, b) ; c.y",
  "fun foo(v : bool) { if v { return 10 } ; 20 } ; foo(true) + foo(false)",
  "let x = 10 ; while true { x = x - 1 ; if x <= 5 { break } } ; x",
  "let x = 1 ; while x < 10 { x = x + 6 } ; x",
  "let a = [0, 1, 2, 3, 6] ; a[1] = 50 ; a[1] + a[4] + (a.length as i64)",
  \* breaks within branches and loops, and a value they leave behind
  "let x = 0 ; while x < 9 { if x > 2 { if x > 3 { break } else { x = x + 2 } } ; x = x + 1 } ; x",
  "fun f(a : i64) { if a > 1 { if a > 2 { 5 } else { return 7 ; 6 } } else { 8 } } ; f(1) + f(2) + f(3)",
  "let i = 0 ; while i < 5 { while true { i = i + 1 ; if i > 2 { break } } ; i = i + 1 } ; i",
  "fun f(a : bool) => i64 { let b = if a { return 3 ; 5 } else { 4 } ; b } ; f(true) + f(false)",
  \* layouts and places
  "struct s { a : u8 ; b : i64 ; c : u8 } ; union u { a : s ; b : i32 } ; sizeof(u) + sizeof(s)",
  "struct a { tag : u8; data : u8 } ; struct b { tag : u8; data : i64 } ; union blah { a : a ; b : b } ; " \o
    "let v = blah.new(a : a.new(1 as u8, 2 as u8)) ; v.b = b.new(1 as u8, 7) ; v.b.data + (sizeof(blah) as i64)",
  "union u { a : u8 ; b : u16 } ; union w { a : u ; b : i64 } ; let v = w.new(a : u.new(b : 7 as u16)) ; " \o
    "v.a.b = 9 as u16 ; (v.a.b as i64) + (sizeof(w) as i64)",
  "union u { a : u8 ; b : u16 } ; union w { a : u ; b : i64 } ; let v = w.new(b : 515) ; v.b = v.b + 1 ; v.b",
  "struct pt { x : i64 ; y : ptr(i64) } ; let v = 5 ; let a = pt.new(1, &v) ; *a.y = *a.y + a.x ; v",
  "struct pt { x : i64 ; y : i64 } ; let a = pt.new(1, 2) ; let p = &a ; let q = &p ; q.y = q.x + 10 ; a.y",
  "let a = [1.5, 2.5] ; let i = 0 as u32 ; a[i] + a[1]",
  \* functions
  "fun fact(n : i64) => i64 { if n < 2 { 1 } else { n * fact(n - 1) } } ; fact(4)",
  "fun twice(f : fun(i64) => i64, v : i64) { f(f(v)) } ; fun inc(a : i64) { a + 1 } ; twice(inc, 5)",
  "struct s { f : fun(i64) => i64 } ; fun inc(a : i64) { a + 1 } ; let v = s.new(inc) ; (v.f)(5)",
  "struct ran { at : i64 ; end : i64 } ; fun iter(r : ran) { r } ; " \o
    "fun next(r : ptr(ran), i : ptr(i64)) { *i = r.at ; r.at = r.at + 1 ; *i < r.end } ; " \o
    "let x = 0 ; for i in ran.new(0, 3) { x = x + i } ; x"})

\* test_jit_module_variable_linking, test_jit_module_function_linking; instances that two
\* modules use, of functions that use others.
Several == Modules(1, 1, {
    << "static foo = 5", "foo" >>,
    << "fun foobar() { 843 }", "foobar()" >>,
    << "fun id(a : T) => T with T { a }", "if id(true) { id(5) } else { 4 }", "id(6)" >>,
    << "static a = 1", "static a = 2.5", "let b : i64 = a ; b" >>,
    << "fun g(a : T) => T with T { a } ; fun f(a : T) => T with T { g(a) } ; f(5)" >> })
  \cup Modules(0, 1, {
    << "static n = 3 ; fun next() => i64 { n = n + 1 ; n } ; next() + next()", "n + next()" >>,
    << "struct s { a : i64 } ; fun mk() { s.new(1) }",
       "struct t { b : i64 } ; fun get(v : s) { v.a } ; get(mk()) + t.new(2).b" >> })

\* A condition whose branches have values that are not wanted.
Branching == Texts(2, 2, {"let a : () = if true { true } else { false } ; 5"})

\* A library that uses its own function, and a module that uses another one that calls it.
Contaminated == Modules(0, 1, {
  << "fun g(a : T) => T with T { a } ; fun f(a : T) => T with T { g(a) } ; g(6)", "f(5)" >>})

\* A function that makes an instance of itself at a larger type, and one that is its own result.
Growing == Texts(0, 1, {"fun f(a : T) => i64 with T { f(&a) } ; f(5)", "fun f ( ) { f }"})

\* Two statics of one name; a struct whose type variable nothing decides.
Doubled   == Texts(0, 1, {"static a = 1 ; static a = 2"})
Undecided == Texts(0, 1, {"struct box(T) { v : T } ; box.new(1) ; 1"})

MCPrograms == Short \cup Medium \cup Long \cup Several
=============================================================================
