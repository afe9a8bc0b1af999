------------------------------ MODULE CValues -------------------------------
(* What the operators of C compute.  char is signed. *)
EXTENDS Integers

Bits == 16   \* bound: the width of the integers | ^ & ~ work on

Signed(v, w) == ((v + 2^(w-1)) % 2^w) - 2^(w-1)
BitsOf(v) == {i \in 0 .. Bits - 1 : (v \div 2^i) % 2 = 1}
\* The sum of the bits of B below n.
SumBelow(B) ==
  LET sum[n \in 0 .. Bits] == IF n = 0 THEN 0 ELSE sum[n - 1] + (IF n - 1 \in B THEN 2^(n - 1) ELSE 0)
  IN  sum
OfBits(B) == Signed(SumBelow(B)[Bits], Bits)
Abs(v) == IF v < 0 THEN -v ELSE v
Truth(p) == IF p THEN 1 ELSE 0
Quotient(v, w) == IF (v < 0) = (w < 0) THEN Abs(v) \div Abs(w) ELSE -(Abs(v) \div Abs(w))

Apply(o, v, w) ==
  CASE o = "|" -> OfBits(BitsOf(v) \cup BitsOf(w))
    [] o = "^" -> OfBits((BitsOf(v) \ BitsOf(w)) \cup (BitsOf(w) \ BitsOf(v)))
    [] o = "&" -> OfBits(BitsOf(v) \cap BitsOf(w))
    [] o = "==" -> Truth(v = w) [] o = "!=" -> Truth(v # w)
    [] o = "<" -> Truth(v < w)  [] o = ">" -> Truth(v > w)
    [] o = "<=" -> Truth(v <= w) [] o = ">=" -> Truth(v >= w)
    [] o = "<<" -> v * 2^w      [] o = ">>" -> v \div 2^w
    [] o = "+" -> v + w [] o = "-" -> v - w [] o = "*" -> v * w
    [] o = "/" -> Quotient(v, w)
    [] o = "%" -> v - w * Quotient(v, w)

=============================================================================
