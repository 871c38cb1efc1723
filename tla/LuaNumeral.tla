------------------------------ MODULE LuaNumeral ------------------------------
(* The scanner of the read format "n" (readNumberFromBuf of vm/full_io.go and *)
(* its twin readNumberFromReader of stdlib/io.go): it looks at one byte ahead *)
(* of what it has accepted and gives nothing back when it fails.              *)
EXTENDS Integers, Sequences, SequencesExt, FiniteSets, FiniteSetsExt

CONSTANT MaxNumeral   \* maxNumLen

Blanks == {" "}
DecimalDigits == {"0", "1"}
HexDigits == DecimalDigits \union {"a", "e"}
Signs == {"+", "-"}

\* The scan of s: how much is accepted, and whether it had too much to look at.
PeekIn(s, scan, set) ==
  scan.offset < MaxNumeral /\ scan.offset < Len(s) /\ s[scan.offset + 1] \in set

\* A look beyond the buffer is remembered.
Noted(scan) == [scan EXCEPT !.tooLong = @ \/ scan.offset >= MaxNumeral]

AcceptOne(s, scan, set) ==
  IF PeekIn(s, scan, set) THEN [Noted(scan) EXCEPT !.offset = @ + 1] ELSE Noted(scan)

\* All elements of set that follow.
AcceptAll(s, scan, set) ==
  LET n == Max({k \in 0..(Min({Len(s), MaxNumeral}) - scan.offset) :
                  \A i \in 1..k : s[scan.offset + i] \in set})
  IN Noted([scan EXCEPT !.offset = @ + n])

Grew(before, after) == after.offset > before.offset

ScanNumeral(s) ==
  LET sign == AcceptOne(s, [offset |-> 0, tooLong |-> FALSE], Signs)
      zero == AcceptOne(s, sign, {"0"})
      hex == IF Grew(sign, zero) THEN AcceptOne(s, zero, {"x"}) ELSE zero
      isHex == Grew(zero, hex)
      digits == IF isHex THEN HexDigits ELSE DecimalDigits
      whole == AcceptAll(s, hex, digits)
      point == AcceptOne(s, whole, {"."})
      fraction == IF Grew(whole, point) THEN AcceptAll(s, point, digits) ELSE point
      hasDigits == (Grew(sign, zero) /\ ~isHex) \/ Grew(hex, whole) \/ Grew(point, fraction)
      mark == AcceptOne(s, fraction, IF isHex THEN {"p"} ELSE {"e"})
      expSign == AcceptOne(s, mark, Signs)
      exponent == AcceptAll(s, expSign, DecimalDigits)
      marked == Grew(fraction, mark)
      end == IF ~hasDigits THEN fraction ELSE IF marked THEN exponent ELSE mark
  IN [used |-> end.offset,
      ok |-> hasDigits /\ (marked => Grew(expSign, exponent)) /\ ~end.tooLong]

\* Blanks before the numeral are gone whatever follows.
ReadNumber(s) ==
  LET blank == Max({k \in 0..Len(s) : \A i \in 1..k : s[i] \in Blanks})
      scan == ScanNumeral(SubSeq(s, blank + 1, Len(s)))
  IN [used |-> blank + scan.used, ok |-> scan.ok,
      text |-> IF scan.ok THEN SubSeq(s, blank + 1, blank + scan.used) ELSE <<>>]
=============================================================================
