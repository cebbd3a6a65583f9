-------------------------------- MODULE Sizes -------------------------------
(***************************************************************************)
(* The memory of one machine as it is reckoned with: a size is kept as a   *)
(* text of four digits and a binary unit, and what is left of a machine is *)
(* found by subtracting its bindings one after the other, each time        *)
(* through such a text.  Capacity has sizes that are not rounded; here the *)
(* rounding is what matters, over histories of binding and releasing.      *)
(*                                                                         *)
(* Sizes are bytes below a MiB.  The digits repeat with every unit: a      *)
(* machine of 200 KiB is rounded like one of 200 GiB.                      *)
(***************************************************************************)
EXTENDS Integers, SequencesExt

CONSTANTS
    Total,      \* bytes of memory that the machine reports
    Reserve,    \* values of Spec.Reserve.Memory
    Raise,      \* whether users raise the reserve of a machine in use
    Asked,      \* sizes that resources ask for
    MaxResource \* bound: resources bound at a time

ASSUME SizesAssumption ==
    /\ Total \in Nat /\ Total < 1048576
    /\ Reserve # {} /\ Reserve \subseteq 0 .. Total /\ Raise \in BOOLEAN
    /\ Asked \subseteq Nat /\ MaxResource \in Nat

VARIABLES
    reserve,    \* Spec.Reserve.Memory of the machine
    list        \* the Memory of the bindings in MachineToResources, in order

vars == <<reserve, list>>

----------------------------------------------------------------------------
\* BytesSize takes the largest unit that the size reaches.
Unit(n) == IF n < 1024 THEN 1 ELSE 1024

\* With four digits there are none, one, two or three behind the point.
Fraction(n) ==
         IF n < 10 * Unit(n) THEN 1000
    ELSE IF n < 100 * Unit(n) THEN 100
    ELSE IF n < 1000 * Unit(n) THEN 10
    ELSE 1

\* The nearest multiple; halfway, the even one.
Rounded(a, b) ==
    LET q == a \div b
        r == 2 * (a % b)
    IN IF r > b \/ (r = b /\ q % 2 = 1) THEN q + 1 ELSE q

\* Seeded fault: the digits are rounded up.
Size_Up(n) ==
    [num |-> (n * Fraction(n) + Unit(n) - 1) \div Unit(n), den |-> Fraction(n), unit |-> Unit(n)]

\* The text: num / den units.
Size(n) == [num |-> Rounded(n * Fraction(n), Unit(n)), den |-> Fraction(n), unit |-> Unit(n)]

\* ToSize refuses a negative number.
IsValid(b) == b.num >= 0

\* The fraction of a byte is cut off; Unwrap panics on what ToSize refuses.
Unwrap(b) == (b.num * b.unit) \div b.den

Sub(b, n) == Size(Unwrap(b) - n)

\* makeMachineInfo
Reported == Size(Total)

Available == Sub(Reported, reserve)

Rest(l) == FoldLeft(Sub, Available, l)

----------------------------------------------------------------------------
Init == reserve \in Reserve /\ list = <<>>

\* The scheduler places a resource unless that is an overflow.
Bind(n) ==
    /\ Len(list) < MaxResource
    /\ IsValid(Rest(list)) /\ Unwrap(Rest(list)) >= n
    /\ list' = Append(list, n)
    /\ UNCHANGED reserve

\* Seeded fault: the last one takes the place of the one that goes.
Release_Swaps(i) ==
    /\ list' = [j \in 1 .. Len(list) - 1 |-> list[IF j = i THEN Len(list) ELSE j]]
    /\ UNCHANGED reserve

\* refsRemove keeps the order.
Release(i) ==
    /\ list' = RemoveAt(list, i)
    /\ UNCHANGED reserve

\* ValidateUpdate of the machine accepts everything.
EditReserve(n) ==
    /\ n < reserve \/ (Raise /\ n > reserve)
    /\ reserve' = n
    /\ UNCHANGED list

Next ==
    \/ \E n \in Asked : Bind(n)
    \/ \E i \in 1 .. Len(list) : Release(i)
    \/ \E n \in Reserve : EditReserve(n)

Spec == Init /\ [][Next]_vars

----------------------------------------------------------------------------
\* bytes_size.go:32, panic "BytesSize(%s) is invalid": whatever has been bound
\* and released, and in whatever order, no subtraction on the way to the rest
\* of a machine gives a negative size, which could not be read back.
RestReadable ==
    \A k \in 0 .. Len(list) : IsValid(Rest(SubSeq(list, 1, k)))

\* A machine gives away no more than it has but for the rounding, which is at
\* most half of the last digit for every resource on it: small resources may be
\* free, and only their number limits how much is given away.
OvercommitBounded ==
    LET half == Unit(Total) \div (2 * Fraction(Total)) + 1
    IN FoldLeft(+, 0, list) <= Unwrap(Available) + Len(list) * half
=============================================================================
