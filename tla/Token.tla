------------------------------- MODULE Token -------------------------------
(***************************************************************************)
(* The token of a published script (Editor._token):                        *)
(*                                                                         *)
(*   (((1 + Math.random()) * 0x10000) | 0).toString(16).substring(1)       *)
(*                                                                         *)
(* Math.random() is random / (Capacity * Parts); Capacity is the power of   *)
(* Base with as many digits as a token, 0x10000 in the code.  Parts stands *)
(* for the part of the fraction that | 0 cuts off.                         *)
(***************************************************************************)
EXTENDS Naturals, Sequences

CONSTANTS
  Base,    \* the radix given to toString
  Digits,  \* digits of a token
  Parts    \* values of Math.random() per token

TokenAssumption ==
  /\ Base \in Nat /\ Base > 1
  /\ Digits \in Nat \ {0}
  /\ Parts \in Nat \ {0}

\* Power[d] is Base to the d, the least number of d + 1 digits.
Power[d \in 0..(Digits + 1)] == IF d = 0 THEN 1 ELSE Base * Power[d - 1]

Capacity == Power[Digits]

VARIABLES
  random,  \* numerator of Math.random()
  token    \* the digits of the token, << >> before it is made

vars == <<random, token>>

Init ==
  /\ random \in 0..(Capacity * Parts - 1)
  /\ token = << >>

\* Faulty variant: without the leading one.
ScaledFromZero(r) == r \div Parts

\* ((1 + Math.random()) * 0x10000) | 0
Scaled(r) == (Capacity * Parts + r) \div Parts

\* Number.toString: no leading zeros.
Length(n) ==
  IF n = 0 THEN 1
  ELSE CHOOSE d \in 1..(Digits + 1) : Power[d - 1] <= n /\ n < Power[d]

toString(n) ==
  [i \in 1..Length(n) |-> (n \div Power[Length(n) - i]) % Base]

\* _token: substring(1) drops the leading digit.
MakeToken ==
  /\ token = << >>
  /\ token' = Tail(toString(Scaled(random)))
  /\ UNCHANGED random

Next == MakeToken

Spec == Init /\ [][Next]_vars
-----------------------------------------------------------------------------
\* The number a string of digits stands for.
NumberOf(s) ==
  LET value[k \in 0..Len(s)] == IF k = 0 THEN 0 ELSE value[k - 1] * Base + s[k]
  IN  value[Len(s)]

\* Every token has all its digits, leading zeros included, and it is the one
\* that Math.random() picks when the tokens share the unit interval evenly:
\* no token is likelier than another, and none is out of reach.
TokenIsUniform ==
  token # << >> =>
    /\ Len(token) = Digits
    /\ \A i \in DOMAIN token : token[i] \in 0..(Base - 1)
    /\ NumberOf(token) = random \div Parts
=============================================================================
