--------------------------- MODULE SchemeSamples ----------------------------
(***************************************************************************)
(* The unit tests of run_tests (scheme.c, 605-642) and the programs of the *)
(* model, by name.                                                         *)
(***************************************************************************)
EXTENDS SchemeReader

T(c, e) == [code |-> c, expected |-> e]

take == "(define take (lambda (n seq) (if (<= n 0) (quote ()) (cons (head seq) (take (- n 1) (tail seq))))))"
drop == "(define drop (lambda (n seq) (if (<= n 0) seq (drop (- n 1) (tail seq)))))"
mid == "(define mid (lambda (seq) (/ (length seq) 2)))"

UnitTests == <<
  T("(quote (testing 1 (2.0) -3.14e159))", "(testing 1 (2.0) -3.14e159)"),
  T("(+ 2 2)", "4"),
  T("(+ (* 2 100) (* 1 10))", "210"),
  T("(if (> 6 5) (+ 1 1) (+ 2 2))", "2"),
  T("(if (< 6 5) (+ 1 1) (+ 2 2))", "4"),
  T("(define x 3)", "3"),
  T("x", "3"),
  T("(+ x x)", "6"),
  T("(begin (define x 1) (set! x (+ x 1)) (+ x 1))", "3"),
  T("((lambda (x) (+ x x)) 5)", "10"),
  T("(define twice (lambda (x) (* 2 x)))", "<Lambda>"),
  T("(twice 5)", "10"),
  T("(define compose (lambda (f g) (lambda (x) (f (g x)))))", "<Lambda>"),
  T("((compose list twice) 5)", "(10)"),
  T("(define repeat (lambda (f) (compose f f)))", "<Lambda>"),
  T("((repeat twice) 5)", "20"),
  T("((repeat (repeat twice)) 5)", "80"),
  T("(define fact (lambda (n) (if (<= n 1) 1 (* n (fact (- n 1))))))", "<Lambda>"),
  T("(fact 3)", "6"),
  T("(fact 12)", "479001600"),
  T("(define abs (lambda (n) ((if (> n 0) + -) 0 n)))", "<Lambda>"),
  T("(list (abs -3) (abs 0) (abs 3))", "(3 0 3)"),
  T("(define combine (lambda (f)(lambda (x y)(if (null? x) (quote ())(f (list (head x) (head y))((combine f) (tail x) (tail y)))))))", "<Lambda>"),
  T("(define zip (combine cons))", "<Lambda>"),
  T("(zip (list 1 2 3 4) (list 5 6 7 8))", "((1 5) (2 6) (3 7) (4 8))"),
  T("(define riff-shuffle (lambda (deck) (begin" \o take \o drop \o mid \o
    "((combine append) (take (mid deck) deck) (drop (mid deck) deck)))))", "<Lambda>"),
  T("(riff-shuffle (list 1 2 3 4 5 6 7 8))", "(1 5 2 6 3 7 4 8)"),
  T("((repeat riff-shuffle) (list 1 2 3 4 5 6 7 8))", "(1 3 5 7 2 4 6 8)"),
  T("(riff-shuffle (riff-shuffle (riff-shuffle (list 1 2 3 4 5 6 7 8))))", "(1 2 3 4 5 6 7 8)")
>>

\* Programs that end well.
Good ==
  [w \in {"built in"} |-> "(begin     (define y 5)     (print y         (quote (doubled is))         ((lambda (x) (+ x x)) y)))"]
  @@ [file |-> "(print (quote Hello))\n",
      arithmetic |-> "(list (/ 7 2) (/ -7 2) (- 5) (* 3 -2) (> 2 1) (< 3 1 2) (<= 1 1))",
      equal |-> "(list (= 1 1 1) (= 1 (quote 1) 2) (!= (quote (1 2)) (list 1 2)) (= + -) (= + +))",
      lists |-> "(list (append (list 1) (list 2 3)) (cons 1 nil) (tail (list 1)) (length (list 1 2)) (null? 5))",
      \* an if without alternative, and what is empty
      noAlt |-> "(list (if #f 1) () (if (quote #f) 1 2) (if 0 1 2))",
      \* a closure's variables, and one defined after the closure
      adder |-> "(begin (define add (lambda (a) (lambda (b) (+ a b k)))) (define k 100) (define inc (add 1)) (list (inc 5) ((add 10) 5)))",
      down |-> "(begin (define down (lambda (n) (if (<= n 0) (quote done) (down (- n 1))))) (down 4))",
      parity |-> "(begin (define even (lambda (n) (if (= n 0) #t (odd (- n 1))))) (define odd (lambda (n) (if (= n 0) #f (begin n (even (- n 1)))))) (even 5))"]

\* Programs that stop.
Bad ==
  [unknown |-> "(list 1 (foo))", notAProcedure |-> "((quote x) 1)",
   quoted |-> "(quote)", begin |-> "(begin)", lambda |-> "((lambda (x)) 1)",
   short |-> "((lambda (x y) x) 1)", headOfNone |-> "(head (quote ()))",
   noNumber |-> "(+)", divided |-> "(/ 1 0)", oneList |-> "(append (list 1))",
   define |-> "(define x)", open |-> "((+ 1 2)", bare |-> "("]

\* Programs that end with another answer than the reference's.
Departing ==
  \* a lambda expression evaluated again before its closure is applied
  [shared |-> "(begin (define twice (lambda (x) (* 2 x))) (define compose (lambda (f g) (lambda (x) (f (g x))))) ((compose list twice) ((compose twice twice) 5)))",
   \* set! of a variable of an outer environment: a counter, and a procedure
   \* that gives its own name another value while it runs
   counter |-> "(begin (define n 1) (define bump (lambda () (set! n (+ n 1)))) (bump) (list (bump) n))",
   renamed |-> "(begin (define f (lambda (v) (begin (set! f v) 2))) (list (f 1) (f 1)))",
   \* an operand that assigns the variable of the operator
   rebound |-> "(begin (define f +) (f (define f -) 2))",
   redefined |-> "(begin (define f (lambda (x) 1)) (f (define f (lambda (x) (list x)))))",
   \* the first two at once
   scopes |-> "(begin (define twice (lambda (x) (* 2 x))) (define compose (lambda (f g) (lambda (x) (f (g x))))) (define n 1) (define bump (lambda () (set! n (+ n 1)))) (bump) (list n ((compose list twice) ((compose twice twice) 5))))"]

\* Programs that leave what C++ defines and that the reference ends well: a
\* procedure taken out of a list, a variable assigned from a part of itself.
Lost ==
  [lostProc |-> "((head (list + -)) 1 2)",
   own |-> "(begin (define f (lambda () (quote (1 2)))) (define f (f)))"]

Programs == Good @@ Bad @@ Departing @@ Lost
=============================================================================
