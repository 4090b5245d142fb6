---------------------------- MODULE PhoneLineProofs ----------------------------
(***************************************************************************)
(* Theorems about PhoneLine for buffers of any length, any keys, files,    *)
(* configurations and commands.                                            *)
(*                                                                         *)
(* First the number dialled: numberIndex stays within inputNumber, and the *)
(* number called is the number dialled.  What an action does to the link   *)
(* is of no consequence there: a handler gets a machine with any link and  *)
(* leaves phone, typed and called as they should be.                       *)
(*                                                                         *)
(* Then the rest, from the bottom up: the link through every function that *)
(* sends, the handlers of the commands, the running of an action and the   *)
(* loading of a file; the weight of the queue through every event handler; *)
(* and the steps.  They lead to the types, to the voice of a talk, to the  *)
(* actions that run after a load and, last, to the server: in quiet times  *)
(* every row runs an action of the built-in table or of the repository's   *)
(* file, one that says exactly what the new state needs, and the events    *)
(* still queued lead the telephone to where its handset is.                *)
(***************************************************************************)
EXTENDS PhoneLine, SequenceTheorems, FiniteSetTheorems, WellFoundedInduction, TLAPS

NewStates == States \ {"MAX"}
Length == VT_INPUT_NUM_MAX

IsString(s) == Len(s) \in Nat /\ s = [i \in 1 .. Len(s) |-> s[i]]

PHONE ==
  [fxsState : NewStates, number : [1 .. Length -> Places], numberIndex : 0 .. Length,
   timer : BOOLEAN]

IsRecord(c) == c = [number |-> c.number, typed |-> c.typed, longest |-> c.longest]

(* The buffer holds the digits handled since dialling began, where keys    *)
(* that stand for no digit leave what was there, and NUL behind the        *)
(* longest number dialled so far.                                          *)
Buffered(p, t, c) ==
  /\ p.numberIndex = Len(t) /\ Len(t) <= c.longest /\ c.longest \in 0 .. Length
  /\ \A i \in 1 .. Length : i > c.longest => p.number[i] = NUL
  /\ \A i \in 1 .. Len(t) : t[i] \in DtmfDigits => p.number[i] = t[i]

Dialled(c) ==
  (/\ c.longest <= Len(c.typed)
   /\ \A i \in DOMAIN c.typed : c.typed[i] \in DtmfDigits)
  => c.number = Value(c.typed)

Good(p, t, c) ==
  /\ p \in PHONE
  /\ IsString(t)
  /\ IsRecord(c) /\ IsString(c.typed)
  /\ Buffered(p, t, c)
  /\ Dialled(c)

IInv == Good(phone, typed, called)

-----------------------------------------------------------------------------
(* Strings.                                                                *)
LEMMA StringIsSeq ==
  ASSUME NEW s, IsString(s)
  PROVE  s \in Seq({s[i] : i \in 1 .. Len(s)}) /\ DOMAIN s = 1 .. Len(s)
  BY DEF IsString

LEMMA SeqIsString ==
  ASSUME NEW S, NEW s \in Seq(S)
  PROVE  IsString(s)
  BY DEF IsString


LEMMA EmptyString == IsString(<< >>) /\ Len(<< >>) = 0
  BY DEF IsString

LEMMA AppendString ==
  ASSUME NEW s, IsString(s), NEW e
  PROVE  /\ IsString(Append(s, e)) /\ Len(Append(s, e)) = Len(s) + 1
         /\ \A i \in 1 .. Len(s) : Append(s, e)[i] = s[i]
         /\ Append(s, e)[Len(s) + 1] = e
<1>. DEFINE S == {s[i] : i \in 1 .. Len(s)} \union {e}
<1>1. s \in Seq(S)
  <2>1. \A i \in 1 .. Len(s) : s[i] \in S
    OBVIOUS
  <2>2. [i \in 1 .. Len(s) |-> s[i]] \in [1 .. Len(s) -> S]
    BY <2>1
  <2>3. s \in [1 .. Len(s) -> S] /\ Len(s) \in Nat
    BY <2>2 DEF IsString
  <2>. HIDE DEF S
  <2>4. QED
    BY <2>3
<1>2. e \in S
  OBVIOUS
<1>. HIDE DEF S
<1>3. Append(s, e) \in Seq(S)
  BY <1>1, <1>2, AppendProperties
<1>4. IsString(Append(s, e))
  BY <1>3, SeqIsString
<1>5. QED
  BY <1>1, <1>2, <1>4, AppendProperties

(* Two strings are the same when they are as long and agree everywhere.    *)
LEMMA SameStrings ==
  ASSUME NEW s, NEW t, IsString(s), IsString(t), Len(s) = Len(t),
         \A i \in 1 .. Len(s) : s[i] = t[i]
  PROVE  s = t
  BY DEF IsString

LEMMA SameSubSeqs ==
  ASSUME NEW s, NEW t, NEW m \in Int, NEW n \in Int, \A i \in m .. n : s[i] = t[i]
  PROVE  SubSeq(s, m, n) = SubSeq(t, m, n)
<1>. DEFINE S == {s[i] : i \in m .. n}
            u == SubSeq(s, m, n)
            v == SubSeq(t, m, n)
<1>1. \A i \in m .. n : s[i] \in S /\ t[i] \in S
  OBVIOUS
<1>. HIDE DEF S
<1>2. /\ u \in Seq(S) /\ v \in Seq(S)
      /\ Len(u) = (IF m <= n THEN n - m + 1 ELSE 0)
      /\ Len(v) = (IF m <= n THEN n - m + 1 ELSE 0)
      /\ \A i \in 1 .. n - m + 1 : u[i] = s[m + i - 1]
      /\ \A i \in 1 .. n - m + 1 : v[i] = t[m + i - 1]
  BY <1>1, SubSeqProperties
<1>. HIDE DEF u, v
<1>3. \A i \in 1 .. Len(u) : u[i] = v[i]
  BY <1>2
<1>4. u = v
  BY <1>2, <1>3, SeqIsString, SameStrings
<1>5. QED
  BY <1>4 DEF u, v

-----------------------------------------------------------------------------
(* The digits that a set lets stand at the front of a string, and the      *)
(* value in terms of them.                                                 *)
Leading(s, set) == {i \in DOMAIN s : \A j \in 1 .. i : s[j] \in set}

LEMMA ValueByFronts ==
  ASSUME NEW s
  PROVE  Value(s) = SubSeq(s, Cardinality(Leading(s, {"0"})) + 1, Cardinality(Leading(s, Digits)))
  BY DEF Value, Leading

LEMMA FrontCounts ==
  ASSUME NEW s, IsString(s)
  PROVE  /\ Cardinality(Leading(s, {"0"})) \in Nat
         /\ Cardinality(Leading(s, Digits)) \in Nat
         /\ Cardinality(Leading(s, Digits)) <= Len(s)
<1>1. DOMAIN s = 1 .. Len(s) /\ Len(s) \in Nat
  BY StringIsSeq DEF IsString
<1>2. IsFiniteSet(1 .. Len(s)) /\ Cardinality(1 .. Len(s)) = Len(s)
  <2>1. ASSUME NEW n \in Nat PROVE IsFiniteSet(1 .. n) /\ Cardinality(1 .. n) = n
    BY FS_Interval
  <2>2. QED
    BY <1>1, <2>1
<1>3. Leading(s, {"0"}) \in SUBSET (1 .. Len(s)) /\ Leading(s, Digits) \in SUBSET (1 .. Len(s))
  BY <1>1 DEF Leading
<1>4. IsFiniteSet(Leading(s, {"0"})) /\ IsFiniteSet(Leading(s, Digits))
  BY <1>2, <1>3, FS_Subset
<1>5. Cardinality(Leading(s, Digits)) <= Cardinality(1 .. Len(s))
  BY <1>2, <1>3, FS_Subset
<1>6. QED
  BY <1>2, <1>4, <1>5, FS_CardinalityType

(* strtoll stops at what is no digit: numberIndex, read behind a full      *)
(* buffer, does not change the value.                                      *)
LEMMA IndexIsNoDigit ==
  ASSUME NEW s, IsString(s)
  PROVE  Value(Append(s, "index")) = Value(s)
<1>. DEFINE a == Append(s, "index")
            zeros == Cardinality(Leading(s, {"0"}))
            digits == Cardinality(Leading(s, Digits))
<1>1. /\ IsString(a) /\ Len(a) = Len(s) + 1 /\ Len(s) \in Nat
      /\ \A i \in 1 .. Len(s) : a[i] = s[i]
      /\ a[Len(s) + 1] = "index"
  BY AppendString DEF IsString
<1>2. DOMAIN a = 1 .. Len(s) + 1 /\ DOMAIN s = 1 .. Len(s)
  BY <1>1, StringIsSeq
<1>. HIDE DEF a
<1>3. Leading(a, {"0"}) = Leading(s, {"0"})
  BY <1>1, <1>2 DEF Leading
<1>4. Leading(a, Digits) = Leading(s, Digits)
  BY <1>1, <1>2 DEF Leading, Digits
<1>5. zeros \in Nat /\ digits \in Nat /\ digits <= Len(s)
  BY FrontCounts
<1>. HIDE DEF zeros, digits
<1>6. \A i \in zeros + 1 .. digits : a[i] = s[i]
  BY <1>1, <1>5
<1>7. SubSeq(a, zeros + 1, digits) = SubSeq(s, zeros + 1, digits)
  <2>1. ASSUME NEW k \in Int, \A i \in k .. digits : a[i] = s[i]
        PROVE  SubSeq(a, k, digits) = SubSeq(s, k, digits)
    <3>1. digits \in Int
      BY <1>5
    <3>2. QED
      BY <2>1, <3>1, SameSubSeqs, Zenon
  <2>2. zeros + 1 \in Int
    BY <1>5
  <2>3. QED
    BY <1>6, <2>1, <2>2, Zenon
<1>8. Value(a) = SubSeq(a, zeros + 1, digits) /\ Value(s) = SubSeq(s, zeros + 1, digits)
  BY <1>3, <1>4, ValueByFronts DEF zeros, digits
<1>9. QED
  BY <1>7, <1>8 DEF a


-----------------------------------------------------------------------------
(* A nonempty set of naturals has a least element.                         *)
LEMMA LeastNumber ==
  ASSUME NEW T, T \subseteq Nat, T # {}
  PROVE  \E x \in T : \A y \in T : x <= y
<1>1. PICK x \in T : \A y \in T : ~ (<<y, x>> \in OpToRel(<, Nat))
  BY WFMin, NatLessThanWellFounded, Zenon
<1>2. ASSUME NEW y \in T
      PROVE  x <= y
  <2>1. ~ (<<y, x>> \in {ss \in Nat \X Nat : ss[1] < ss[2]})
    BY <1>1, Zenon DEF OpToRel
  <2>2. x \in Nat /\ y \in Nat
    OBVIOUS
  <2>3. QED
    BY <2>1, <2>2
<1>3. QED
  BY <1>2

(* When no longer number was dialled before and the keys stand for digits, *)
(* the buffer spells what was typed, followed by numberIndex if it is full.*)
LEMMA SpelledAsTyped ==
  ASSUME NEW p, NEW t, NEW c, p \in PHONE, IsString(t), Buffered(p, t, c),
         c.longest <= Len(t), \A i \in 1 .. Len(t) : t[i] \in DtmfDigits
  PROVE  Spelled(p) = t \/ Spelled(p) = Append(t, "index")
<1>. DEFINE ends == {i \in DOMAIN p.number : p.number[i] = NUL}
            all == [i \in 1 .. VT_INPUT_NUM_MAX |-> p.number[i]]
            n == Len(t)
<1>1. /\ n \in 0 .. Length /\ Length \in Nat \ {0} /\ c.longest = n
      /\ DOMAIN p.number = 1 .. Length /\ p.numberIndex = n
  BY PhoneAssumption DEF Buffered, PHONE, Length, IsString
<1>2. \A i \in 1 .. n : p.number[i] = t[i] /\ p.number[i] # NUL
  BY DEF Buffered, DtmfDigits, Digits, NUL
<1>3. \A i \in 1 .. Length : i > n => p.number[i] = NUL
  BY <1>1 DEF Buffered
<1>4. ends = {i \in 1 .. Length : i > n}
  BY <1>1, <1>2, <1>3
<1>5. all = [i \in 1 .. Length |-> p.number[i]] /\ \A i \in 1 .. n : all[i] = t[i]
  BY <1>1, <1>2 DEF Length
<1>6. Spelled(p) = IF ends # {} THEN SubSeq(all, 1, (CHOOSE i \in ends : \A j \in ends : i <= j) - 1)
                   ELSE IF p.numberIndex > 0 THEN Append(all, "index") ELSE all
  BY DEF Spelled
<1>. HIDE DEF ends, all
<1>7. CASE n < Length
  <2>1. n + 1 \in ends /\ \A j \in ends : n + 1 <= j
    BY <1>1, <1>4, <1>7
  <2>2. (CHOOSE i \in ends : \A j \in ends : i <= j) = n + 1
    <3>1. \A i \in ends : (\A j \in ends : i <= j) => i = n + 1
      BY <2>1, <1>1, <1>4
    <3>2. QED
      BY <2>1, <3>1
  <2>3. Spelled(p) = SubSeq(all, 1, n)
    <3>1. (n + 1) - 1 = n
      BY <1>1
    <3>2. Spelled(p) = SubSeq(all, 1, (CHOOSE i \in ends : \A j \in ends : i <= j) - 1)
      BY <1>6, <2>1
    <3>3. QED
      BY <2>2, <3>1, <3>2, Zenon
  <2>4. SubSeq(all, 1, n) = SubSeq(t, 1, n)
    <3>1. 1 \in Int /\ n \in Int
      BY <1>1
    <3>2. \A i \in 1 .. n : all[i] = t[i]
      BY <1>5
    <3>. HIDE DEF n
    <3>3. QED
      BY <3>1, <3>2, SameSubSeqs
  <2>5. SubSeq(t, 1, n) = t
    BY StringIsSeq, SubSeqFull
  <2>6. QED
    BY <2>3, <2>4, <2>5
<1>8. CASE n = Length
  <2>1. ends = {}
    BY <1>1, <1>4, <1>8
  <2>2. all = t
    BY <1>1, <1>5, <1>8 DEF IsString
  <2>3. QED
    BY <1>1, <1>6, <1>8, <2>1, <2>2
<1>9. QED
  BY <1>1, <1>7, <1>8

(* Hence calling what the buffer spells keeps the promise.                 *)
LEMMA CalledAsDialled ==
  ASSUME NEW p, NEW t, NEW c, Good(p, t, c)
  PROVE  Good(p, t, [number |-> Value(Spelled(p)), typed |-> t, longest |-> c.longest])
<1>. DEFINE d == [number |-> Value(Spelled(p)), typed |-> t, longest |-> c.longest]
<1>1. d.number = Value(Spelled(p)) /\ d.typed = t /\ d.longest = c.longest
  OBVIOUS
<1>2. IsRecord(d)
  BY DEF IsRecord
<1>. HIDE DEF d
<1>3. Buffered(p, t, d)
  BY <1>1 DEF Good, Buffered
<1>4. Dialled(d)
  <2>1. SUFFICES ASSUME c.longest <= Len(t), \A i \in DOMAIN t : t[i] \in DtmfDigits
                 PROVE  Value(Spelled(p)) = Value(t)
    BY <1>1 DEF Dialled
  <2>2. Spelled(p) = t \/ Spelled(p) = Append(t, "index")
    BY <2>1, SpelledAsTyped, StringIsSeq DEF Good
  <2>3. QED
    BY <2>2, IndexIsNoDigit DEF Good
<1>5. QED
  BY <1>1, <1>2, <1>3, <1>4 DEF Good, d


-----------------------------------------------------------------------------
(* The machine that handlers take and return.                              *)
IsMachine(m) ==
  m = [phone |-> m.phone, queue |-> m.queue, link |-> m.link, typed |-> m.typed,
       called |-> m.called, ok |-> m.ok]

GoodMachine(m) == IsMachine(m) /\ Good(m.phone, m.typed, m.called)

(* What leaves phone, typed and called alone leaves them good.             *)
Untouched(m, n) ==
  IsMachine(n) /\ n.phone = m.phone /\ n.typed = m.typed /\ n.called = m.called

LEMMA UntouchedIsGood ==
  ASSUME NEW m, NEW n, GoodMachine(m), Untouched(m, n)
  PROVE  GoodMachine(n)
  BY DEF GoodMachine, Untouched

LEMMA SmallSteps ==
  ASSUME NEW m, IsMachine(m), NEW l, NEW e
  PROVE  /\ Untouched(m, Done(m)) /\ Untouched(m, Undone(m))
         /\ Untouched(m, PutEvent(m, e))
         /\ \A b : Untouched(m, [m EXCEPT !.ok = b])
         /\ Untouched(m, [m EXCEPT !.link = l]) /\ [m EXCEPT !.link = l].link = l
<1>1. ASSUME NEW b
      PROVE  Untouched(m, [m EXCEPT !.ok = b])
  BY DEF IsMachine, Untouched
<1>2. Untouched(m, Done(m)) /\ Untouched(m, Undone(m))
  BY <1>1, Zenon DEF Done, Undone
<1>3. Untouched(m, PutEvent(m, e))
  BY DEF IsMachine, Untouched, PutEvent
<1>4. Untouched(m, [m EXCEPT !.link = l]) /\ [m EXCEPT !.link = l].link = l
  BY DEF IsMachine, Untouched
<1>5. QED
  BY <1>1, <1>2, <1>3, <1>4

LEMMA ResultIsFree ==
  ASSUME NEW m, GoodMachine(m), NEW b
  PROVE  GoodMachine([m EXCEPT !.ok = b])
  BY SmallSteps, UntouchedIsGood DEF GoodMachine

-----------------------------------------------------------------------------
(* Dialling begins: the buffer counts from its start again, and what the   *)
(* last number left in it lies within the longest.                         *)
LEMMA DialBegins ==
  ASSUME NEW m, GoodMachine(m)
  PROVE  GoodMachine(DfmtStartHookOff(m))
<1>. DEFINE p == [m.phone EXCEPT !.numberIndex = 0]
            n == DfmtStartHookOff(m)
<1>1. n.phone = p /\ n.typed = << >> /\ n.called = m.called /\ IsMachine(n)
  <2>. DEFINE k == [m EXCEPT !.phone.numberIndex = 0, !.link = vt_sendTonePlay(@, endpt),
                             !.typed = << >>]
  <2>1. k.phone = p /\ k.typed = << >> /\ k.called = m.called /\ IsMachine(k)
    <3>1. PICK h, q, l, u, c, o : m = [phone |-> h, queue |-> q, link |-> l, typed |-> u,
                                       called |-> c, ok |-> o]
      BY DEF GoodMachine, IsMachine
    <3>2. k = [[[m EXCEPT !.phone = p] EXCEPT !.link = vt_sendTonePlay(@, endpt)]
                 EXCEPT !.typed = << >>]
      OBVIOUS
    <3>. HIDE DEF k, p
    <3>3. k = [phone |-> p, queue |-> q, link |-> vt_sendTonePlay(l, endpt), typed |-> << >>,
               called |-> c, ok |-> o]
      BY <3>1, <3>2
    <3>4. QED
      BY <3>1, <3>3 DEF IsMachine
  <2>2. n = Done(k)
    BY DEF DfmtStartHookOff
  <2>. HIDE DEF k, n, p
  <2>3. QED
    BY <2>1, <2>2, SmallSteps DEF Untouched
<1>2. p \in PHONE /\ p.numberIndex = 0 /\ p.number = m.phone.number
  BY PhoneAssumption DEF GoodMachine, Good, PHONE, Length
<1>. HIDE DEF n, p
<1>3. Buffered(p, << >>, m.called)
  BY <1>2, EmptyString DEF GoodMachine, Good, Buffered, IsString
<1>4. Good(p, << >>, m.called)
  BY <1>2, <1>3, EmptyString DEF GoodMachine, Good
<1>5. QED
  BY <1>1, <1>4 DEF GoodMachine, n

(* A digit: refused when number is full, else the next place of the buffer *)
(* takes it.                                                               *)
LEMMA DigitDialled ==
  ASSUME NEW m, GoodMachine(m), NEW key
  PROVE  GoodMachine(DfmtEndDtmfStart(m, key))
<1>. DEFINE i == m.phone.numberIndex + 1
            p == [m.phone EXCEPT !.numberIndex = i, !.timer = TRUE,
                                 !.number[i] = IF key \in DtmfDigits THEN key ELSE @]
            t == Append(m.typed, key)
            c == [m.called EXCEPT !.longest = Larger(@, Len(m.typed) + 1)]
            n == DfmtEndDtmfStart(m, key)
<1>1. CASE i > VT_INPUT_NUM_MAX
  <2>1. n = Undone(m)
    BY <1>1 DEF DfmtEndDtmfStart
  <2>2. QED
    BY <2>1, SmallSteps, UntouchedIsGood DEF GoodMachine
<1>2. CASE ~ (i > VT_INPUT_NUM_MAX)
  <2>1. n.phone = p /\ n.typed = t /\ n.called = c /\ IsMachine(n)
    BY <1>2 DEF DfmtEndDtmfStart, Done, GoodMachine, IsMachine
  <2>2. /\ m.phone \in PHONE /\ i \in 1 .. Length /\ i = Len(m.typed) + 1
        /\ Len(m.typed) \in Nat /\ Length \in Nat
    BY <1>2, PhoneAssumption DEF GoodMachine, Good, PHONE, Length, Buffered, IsString
  <2>3. /\ p.numberIndex = i
        /\ p.number[i] = IF key \in DtmfDigits THEN key ELSE m.phone.number[i]
        /\ \A j \in 1 .. Length : j # i => p.number[j] = m.phone.number[j]
    BY <2>2 DEF PHONE
  <2>4. p \in PHONE
    <3>1. [m.phone.number EXCEPT ![i] = IF key \in DtmfDigits THEN key ELSE @]
             \in [1 .. Length -> Places]
      BY <2>2 DEF PHONE, Places
    <3>2. i \in 0 .. Length
      BY <2>2
    <3>. HIDE DEF i
    <3>3. QED
      BY <2>2, <3>1, <3>2 DEF PHONE
  <2>5. /\ c.number = m.called.number /\ c.typed = m.called.typed /\ IsRecord(c)
        /\ c.longest = Larger(m.called.longest, i)
    BY <2>2 DEF GoodMachine, Good, IsRecord
  <2>6. /\ c.longest \in 0 .. Length /\ c.longest >= m.called.longest /\ c.longest >= i
        /\ m.called.longest \in 0 .. Length
    BY <2>2, <2>5 DEF GoodMachine, Good, Buffered, Larger
  <2>7. /\ IsString(t) /\ Len(t) = i
        /\ \A j \in 1 .. Len(m.typed) : t[j] = m.typed[j]
        /\ t[i] = key
    BY <2>2, AppendString DEF GoodMachine, Good
  <2>. HIDE DEF i, p, t, c, n
  <2>8. Buffered(p, t, c)
    <3>1. \A j \in 1 .. Length : j > c.longest => p.number[j] = NUL
      BY <2>2, <2>3, <2>6 DEF GoodMachine, Good, Buffered
    <3>2. ASSUME NEW j \in 1 .. Len(t), t[j] \in DtmfDigits
          PROVE  p.number[j] = t[j]
      <4>1. CASE j = i
        BY <2>3, <2>7, <3>2, <4>1
      <4>2. CASE j # i
        <5>1. j \in 1 .. Len(m.typed) /\ j \in 1 .. Length
          BY <2>2, <2>7, <4>2
        <5>2. t[j] = m.typed[j] /\ p.number[j] = m.phone.number[j]
          BY <2>3, <2>7, <4>2, <5>1
        <5>3. QED
          BY <3>2, <5>1, <5>2 DEF GoodMachine, Good, Buffered
      <4>3. QED
        BY <4>1, <4>2
    <3>3. QED
      BY <2>3, <2>6, <2>7, <3>1, <3>2 DEF Buffered
  <2>9. Dialled(c)
    BY <2>5, <2>6 DEF GoodMachine, Good, Dialled, IsString
  <2>10. Good(p, t, c)
    BY <2>4, <2>5, <2>7, <2>8, <2>9 DEF GoodMachine, Good
  <2>11. QED
    BY <2>1, <2>10 DEF GoodMachine, n
<1>3. QED
  BY <1>1, <1>2


(* The number is called, or the far end cannot be reached; an action of a  *)
(* key is run instead.                                                     *)
LEMMA NumberCalled ==
  ASSUME NEW m, GoodMachine(m), NEW x
  PROVE  GoodMachine(CallNumber(m, Spelled(m.phone), x))
<1>. DEFINE k == [m EXCEPT !.called.number = Value(Spelled(m.phone)), !.called.typed = m.typed]
            d == [number |-> Value(Spelled(m.phone)), typed |-> m.typed,
                  longest |-> m.called.longest]
<1>1. GoodMachine(k)
  <2>1. PICK p, q, l, t, u, v, w, o :
            m = [phone |-> p, queue |-> q, link |-> l, typed |-> t,
                 called |-> [number |-> u, typed |-> v, longest |-> w], ok |-> o]
    BY DEF GoodMachine, IsMachine, Good, IsRecord
  <2>2. k = [phone |-> p, queue |-> q, link |-> l, typed |-> t,
             called |-> [number |-> Value(Spelled(p)), typed |-> t, longest |-> w], ok |-> o]
    <3>1. m.phone = p /\ m.typed = t
      BY <2>1
    <3>2. PICK y : y = Value(Spelled(p))
      OBVIOUS
    <3>3. k = [[m EXCEPT !.called.number = y] EXCEPT !.called.typed = t]
      BY <3>1, <3>2
    <3>. HIDE DEF k
    <3>4. QED
      BY <2>1, <3>2, <3>3
  <2>3. IsMachine(k) /\ k.phone = m.phone /\ k.typed = m.typed /\ k.called = d
    BY <2>1, <2>2 DEF IsMachine
  <2>4. Good(m.phone, m.typed, d)
    BY CalledAsDialled DEF GoodMachine
  <2>. HIDE DEF k, d
  <2>5. QED
    BY <2>3, <2>4 DEF GoodMachine
<1>. HIDE DEF k
<1>2. GoodMachine(Done(PutEvent(k, "NUM_CALLED")))
  BY <1>1, SmallSteps, UntouchedIsGood DEF GoodMachine
<1>3. GoodMachine(Undone(PutEvent(m, "NUM_ERR")))
  BY SmallSteps, UntouchedIsGood DEF GoodMachine
<1>4. CallNumber(m, Spelled(m.phone), x) =
        IF x.session THEN Done(PutEvent(k, "NUM_CALLED")) ELSE Undone(PutEvent(m, "NUM_ERR"))
  BY DEF CallNumber, k
<1>5. QED
  BY <1>2, <1>3, <1>4

LEMMA KeyActionRun ==
  ASSUME NEW m, GoodMachine(m), NEW string, NEW x
  PROVE  GoodMachine(RunKeyAction(m, string, x))
<1>. DEFINE found == MatchingKey({string}, x.stale)
            index == table.keys[CHOOSE k \in found : TRUE].index
            ran == RunAction(table, index, m.link, <<Number(endpt)>>, x.junk)
<1>1. CASE found = {}
  <2>1. RunKeyAction(m, string, x) = Undone(m)
    BY <1>1 DEF RunKeyAction
  <2>2. QED
    BY <2>1, SmallSteps, UntouchedIsGood DEF GoodMachine
<1>2. CASE found # {}
  <2>1. RunKeyAction(m, string, x) = [[m EXCEPT !.link = ran] EXCEPT !.ok = ~ Failed(ran)]
    BY <1>2 DEF RunKeyAction
  <2>. HIDE DEF ran
  <2>2. GoodMachine([m EXCEPT !.link = ran])
    BY SmallSteps, UntouchedIsGood DEF GoodMachine
  <2>3. GoodMachine([[m EXCEPT !.link = ran] EXCEPT !.ok = ~ Failed(ran)])
    BY <2>2, ResultIsFree, Zenon
  <2>4. QED
    BY <2>1, <2>3, Zenon
<1>3. QED
  BY <1>1, <1>2

LEMMA NumberDone ==
  ASSUME NEW m, GoodMachine(m), NEW x
  PROVE  GoodMachine(NumDoneDtmfStart(m, x))
  BY NumberCalled, KeyActionRun DEF NumDoneDtmfStart

(* The handlers that change neither number nor digits.                     *)
LEMMA OtherHandlers ==
  ASSUME NEW m, GoodMachine(m), NEW x
  PROVE  /\ GoodMachine(Done(m)) /\ GoodMachine(Undone(m))
         /\ GoodMachine(SendCallMsg(m, x)) /\ GoodMachine(HookOnTalking(m, x))
         /\ GoodMachine(HookFlashAny(m)) /\ GoodMachine(CloseFd(m, x))
<1>1. GoodMachine(Done(m)) /\ GoodMachine(Undone(m))
  BY SmallSteps, UntouchedIsGood DEF GoodMachine
<1>2. GoodMachine(SendCallMsg(m, x))
  BY SmallSteps, UntouchedIsGood DEF GoodMachine, SendCallMsg
<1>3. ASSUME NEW l
      PROVE  GoodMachine([m EXCEPT !.link = l])
  BY SmallSteps, UntouchedIsGood DEF GoodMachine
<1>4. GoodMachine(HookOnTalking(m, x))
  <2>. DEFINE k == [m EXCEPT !.link = vt_sendRtpDeactive(@, endpt)]
  <2>1. GoodMachine(k)
    BY <1>3
  <2>2. HookOnTalking(m, x) = [k EXCEPT !.ok = x.session]
    BY DEF HookOnTalking, SendCallMsg
  <2>. HIDE DEF k
  <2>3. GoodMachine([k EXCEPT !.ok = x.session])
    BY <2>1, ResultIsFree
  <2>4. QED
    BY <2>2, <2>3, Zenon
<1>5. GoodMachine(HookFlashAny(m))
  <2>1. GoodMachine(PutEvent(m, "HOOK_ON"))
    BY SmallSteps, UntouchedIsGood DEF GoodMachine
  <2>2. GoodMachine(PutEvent(PutEvent(m, "HOOK_ON"), "HOOK_OFF"))
    BY <2>1, SmallSteps, UntouchedIsGood DEF GoodMachine
  <2>3. QED
    BY <2>2, SmallSteps, UntouchedIsGood DEF GoodMachine, HookFlashAny
<1>6. GoodMachine(CloseFd(m, x))
  <2>. DEFINE k == [m EXCEPT !.link = [@ EXCEPT !.sock = "dead"]]
  <2>1. GoodMachine(k)
    BY <1>3
  <2>2. GoodMachine(Done(k))
    BY <2>1, SmallSteps, UntouchedIsGood DEF GoodMachine
  <2>3. CloseFd(m, x) = Done(k) \/ CloseFd(m, x) = Done(m)
    BY DEF CloseFd
  <2>. HIDE DEF k
  <2>4. QED
    BY <1>1, <2>2, <2>3
<1>7. QED
  BY <1>1, <1>2, <1>4, <1>5, <1>6

-----------------------------------------------------------------------------
(* The handlers and the new states of the rows are known ones.             *)
Handlers ==
  {"dummy", "hookFlashTalking", "numErrDtmfStart", "beCalledHookOn", "hookOnCalling",
   "hookOffBeCalled", "rejectCall", "hookOnTalking", "hookFlashAny", "dfmtStartHookOff",
   "dfmtEndDtmfStart", "numDoneDtmfStart", "closeFd"}

LEMMA RowsKnown ==
  ASSUME NEW r \in Rows
  PROVE  FsmCtxs[r].handler \in Handlers /\ FsmCtxs[r].new \in States /\ r \in Nat
<1>1. r \in 1 .. 19
  BY DEF Rows, FsmCtxs
<1>2. FsmCtxs[r].handler \in Handlers
  BY <1>1 DEF FsmCtxs, Row, Handlers
<1>3. FsmCtxs[r].new \in States
  BY <1>1 DEF FsmCtxs, Row, States
<1>4. QED
  BY <1>1, <1>2, <1>3

LEMMA HandlerKeeps ==
  ASSUME NEW m, GoodMachine(m), NEW name \in Handlers, NEW event, NEW x
  PROVE  GoodMachine(EventHandler(name, m, event, x))
<1>1. CASE name \in {"dummy", "hookFlashTalking", "numErrDtmfStart", "beCalledHookOn"}
  BY <1>1, OtherHandlers DEF EventHandler
<1>2. CASE name \in {"hookOnCalling", "hookOffBeCalled", "rejectCall"}
  BY <1>2, OtherHandlers DEF EventHandler
<1>3. CASE name = "hookOnTalking"
  BY <1>3, OtherHandlers DEF EventHandler
<1>4. CASE name = "hookFlashAny"
  BY <1>4, OtherHandlers DEF EventHandler
<1>5. CASE name = "dfmtStartHookOff"
  BY <1>5, DialBegins DEF EventHandler
<1>6. CASE name = "dfmtEndDtmfStart"
  BY <1>6, DigitDialled DEF EventHandler
<1>7. CASE name = "numDoneDtmfStart"
  BY <1>7, NumberDone DEF EventHandler
<1>8. CASE name = "closeFd"
  BY <1>8, OtherHandlers DEF EventHandler
<1>9. QED
  BY <1>1, <1>2, <1>3, <1>4, <1>5, <1>6, <1>7, <1>8 DEF Handlers


-----------------------------------------------------------------------------
(* A command of the operator changes the link and the queue only, and      *)
(* without one nothing happens between the steps of fsmGo.                 *)
LEMMA MeanwhileKeeps ==
  ASSUME NEW m, GoodMachine(m), NEW by, NEW place
  PROVE  GoodMachine(Meanwhile(m, by, place)) /\ Meanwhile(m, by, place).phone = m.phone
<1>. DEFINE l == [Obey(m.link, by) EXCEPT !.result = m.link.result]
            q == IF Drops(by) THEN << >> ELSE m.queue
            n == Meanwhile(m, by, place)
            a == [m EXCEPT !.link = l]
<1>1. n = m \/ n = [a EXCEPT !.queue = q]
  BY DEF Meanwhile, GoodMachine, IsMachine
<1>. HIDE DEF l, q
<1>a. Untouched(m, m)
  BY DEF Untouched, GoodMachine
<1>b. Untouched(m, a)
  BY SmallSteps DEF GoodMachine
<1>. HIDE DEF a, n
<1>2. Untouched(m, [a EXCEPT !.queue = q])
  BY <1>b DEF Untouched, IsMachine
<1>3. Untouched(m, n)
  BY <1>1, <1>2, <1>a
<1>4. GoodMachine(n) /\ n.phone = m.phone
  BY <1>3, UntouchedIsGood DEF Untouched
<1>5. QED
  BY <1>4 DEF n

LEMMA Uninterrupted ==
  ASSUME NEW m, NEW place \in {"row", "handler", "state"}
  PROVE  Meanwhile(m, Alone, place) = m
  BY DEF Meanwhile, Alone

(* fsmGo keeps the machine good: the action changes the link only, the     *)
(* handler is one of those above, and the new state is one to be in.       *)
LEMMA FsmGoKeeps ==
  ASSUME NEW m, GoodMachine(m), NEW row, row.handler \in Handlers, row.new \in States,
         NEW index, NEW words, NEW event, NEW x, NEW by
  PROVE  GoodMachine(FsmGo(m, row, index, words, event, x, by))
<1>. DEFINE acted == [m EXCEPT !.link = RunAction(table, index, @, words, x.junk)]
            ran == Meanwhile(acted, by, "handler")
            handled == EventHandler(row.handler, ran, event, x)
            after == Meanwhile(handled, by, "state")
            moved == [after EXCEPT !.phone.fxsState = row.new]
<1>1. GoodMachine(ran)
  <2>1. GoodMachine(acted)
    BY SmallSteps, UntouchedIsGood DEF GoodMachine
  <2>. HIDE DEF acted
  <2>2. QED
    BY <2>1, MeanwhileKeeps
<1>2. GoodMachine(Undone(ran))
  <2>. HIDE DEF ran
  <2>1. QED
    BY <1>1, OtherHandlers
<1>3. GoodMachine(after)
  <2>. HIDE DEF ran
  <2>1. GoodMachine(handled)
    BY <1>1, HandlerKeeps
  <2>. HIDE DEF handled
  <2>2. QED
    BY <2>1, MeanwhileKeeps
<1>4. ASSUME row.new # "MAX"
      PROVE  GoodMachine(moved)
  <2>. HIDE DEF after
  <2>. DEFINE p == [after.phone EXCEPT !.fxsState = row.new]
  <2>1. moved = [after EXCEPT !.phone = p]
    OBVIOUS
  <2>. HIDE DEF p, moved
  <2>2. /\ moved.phone = p /\ moved.typed = after.typed /\ moved.called = after.called
        /\ IsMachine(moved)
    BY <1>3, <2>1 DEF GoodMachine, IsMachine
  <2>3. /\ p \in PHONE /\ p.number = after.phone.number
        /\ p.numberIndex = after.phone.numberIndex
    BY <1>3, <1>4 DEF GoodMachine, Good, PHONE, NewStates, p
  <2>4. Good(p, after.typed, after.called)
    BY <1>3, <2>3 DEF GoodMachine, Good, Buffered
  <2>5. QED
    BY <2>2, <2>4 DEF GoodMachine
<1>5. \/ FsmGo(m, row, index, words, event, x, by) = ran
      \/ FsmGo(m, row, index, words, event, x, by) = Undone(ran)
      \/ FsmGo(m, row, index, words, event, x, by) = after
      \/ row.new # "MAX" /\ FsmGo(m, row, index, words, event, x, by) = moved
  <2>1. FsmGo(m, row, index, words, event, x, by) =
          CASE ran.link.beyond -> ran
            [] ~ran.link.beyond /\ Failed(ran.link) -> Undone(ran)
            [] OTHER -> IF after.link.beyond \/ ~after.ok \/ row.new = "MAX" THEN after
                        ELSE moved
    BY DEF FsmGo
  <2>. HIDE DEF ran, after, moved
  <2>2. QED
    BY <2>1
<1>. HIDE DEF ran, after, moved
<1>6. QED
  BY <1>1, <1>2, <1>3, <1>4, <1>5

LEMMA DynamicKeeps ==
  ASSUME NEW m, GoodMachine(m), NEW event, NEW state, NEW x
  PROVE  GoodMachine(RunDynamic(m, event, state, x))
<1>. DEFINE found == SearchDynamicFsmCtx(table, event.type, state)
            index == table.dynamic[CHOOSE d \in found : TRUE].index
            row == Row(event.type, state, "MAX", "dummy", "dummy", index)
<1>1. row.handler \in Handlers /\ row.new \in States
  BY DEF Row, Handlers, States
<1>2. RunDynamic(m, event, state, x) =
        IF found = {} THEN m ELSE FsmGo(m, row, index, DynamicData, event, x, Alone)
  BY DEF RunDynamic
<1>. HIDE DEF found, index, row
<1>3. QED
  BY <1>1, <1>2, FsmGoKeeps

(* The row that is found is one of the machine.                            *)
LEMMA RowFound ==
  ASSUME NEW event, NEW state, NEW r \in SearchFsmCtx(event, state)
  PROVE  r \in Rows
<1>. DEFINE T == {q \in Rows : FsmCtxs[q].event = event /\ FsmCtxs[q].cur \in {state, "MAX"}}
<1>1. T \subseteq Nat /\ T \subseteq Rows
  BY RowsKnown
<1>2. SearchFsmCtx(event, state) = FirstOf(T)
  BY DEF SearchFsmCtx
<1>. HIDE DEF T
<1>3. T # {} /\ r = CHOOSE q \in T : \A k \in T : q <= k
  BY <1>2 DEF FirstOf
<1>4. r \in T
  BY <1>1, <1>3, LeastNumber
<1>5. QED
  BY <1>1, <1>4

LEMMA StaticKeeps ==
  ASSUME NEW m, GoodMachine(m), NEW event, NEW state, NEW x, NEW by
  PROVE  GoodMachine(RunStatic(m, event, state, x, by))
<1>. DEFINE found == SearchFsmCtx(event.type, state)
            r == CHOOSE r \in found : TRUE
<1>1. RunStatic(m, event, state, x, by) =
        IF found = {} \/ m.link.beyond THEN m
        ELSE FsmGo(m, FsmCtxs[r], table.rows[r], ActionData(event, state), event, x, by)
  BY DEF RunStatic
<1>2. CASE found # {}
  <2>1. r \in Rows
    BY <1>2, RowFound
  <2>2. FsmCtxs[r].handler \in Handlers /\ FsmCtxs[r].new \in States
    BY <2>1, RowsKnown
  <2>. HIDE DEF r, found
  <2>3. GoodMachine(FsmGo(m, FsmCtxs[r], table.rows[r], ActionData(event, state), event, x, by))
    BY <2>2, FsmGoKeeps
  <2>4. QED
    BY <1>1, <2>3
<1>3. CASE found = {}
  BY <1>1, <1>3
<1>4. QED
  BY <1>2, <1>3

-----------------------------------------------------------------------------
LEMMA InitHolds == Init => IInv
<1>. SUFFICES ASSUME Init PROVE IInv
  OBVIOUS
<1>1. phone \in PHONE /\ phone.numberIndex = 0 /\ \A i \in 1 .. Length : phone.number[i] = NUL
  BY PhoneAssumption DEF Init, PHONE, Length, Places, NewStates, States
<1>2. typed = << >> /\ called.number = << >> /\ called.typed = << >> /\ called.longest = 0
      /\ IsRecord(called)
  BY DEF Init, IsRecord
<1>3. Buffered(phone, typed, called)
  BY <1>1, <1>2, EmptyString, PhoneAssumption DEF Buffered, Length
<1>4. Dialled(called)
  <2>. DEFINE e == << >>
  <2>1. IsString(e) /\ Len(e) = 0
    BY EmptyString
  <2>2. Leading(e, {"0"}) = {} /\ Leading(e, Digits) = {}
    BY <2>1, StringIsSeq DEF Leading
  <2>3. Cardinality({}) = 0
    BY FS_EmptySet
  <2>4. Value(e) = SubSeq(e, 1, 0)
    <3>1. Value(e) = SubSeq(e, Cardinality({}) + 1, Cardinality({}))
      BY <2>2, ValueByFronts, Zenon
    <3>2. Value(e) = SubSeq(e, 0 + 1, 0)
      BY <2>3, <3>1, Zenon
    <3>3. 0 + 1 = 1
      OBVIOUS
    <3>4. QED
      BY <3>2, <3>3, Zenon
  <2>5. SubSeq(e, 1, 0) = << >>
    BY SubSeqEmpty
  <2>6. QED
    BY <1>2, <2>4, <2>5 DEF Dialled
<1>5. QED
  BY <1>1, <1>2, <1>3, <1>4, EmptyString DEF IInv, Good

(* Handling an event.                                                      *)
LEMMA ProcessKeeps ==
  ASSUME IInv, NEW s, NEW event, NEW x, NEW by
  PROVE  GoodMachine(ProcessEvent(s, event, x, by))
<1>. DEFINE m == [phone |-> phone, queue |-> Tail(queue), link |-> s, typed |-> typed,
                  called |-> called, ok |-> TRUE]
<1>1. GoodMachine(m)
  BY DEF IInv, GoodMachine, IsMachine
<1>. HIDE DEF m
<1>2. GoodMachine(RunDynamic(m, event, phone.fxsState, x))
  BY <1>1, DynamicKeeps
<1>. DEFINE d == Meanwhile(RunDynamic(m, event, phone.fxsState, x), by, "row")
<1>3. GoodMachine(d)
  BY <1>2, MeanwhileKeeps
<1>. HIDE DEF d
<1>4. GoodMachine(RunStatic(d, event, phone.fxsState, x, by))
  BY <1>3, StaticKeeps
<1>5. QED
  BY <1>4 DEF ProcessEvent, m, d

LEMMA NextKeeps == IInv /\ [Next]_vars => IInv'
<1>. SUFFICES ASSUME IInv, [Next]_vars PROVE IInv'
  OBVIOUS
<1>1. ASSUME UNCHANGED <<phone, typed, called>>
      PROVE  IInv'
  BY <1>1 DEF IInv
<1>2. CASE User
  BY <1>1, <1>2 DEF User, LiftHandset, HangUp, PressKey, FlashHook, OffTheHook, Report
<1>3. CASE \E type \in CallEvents : FarEnd(type)
  BY <1>1, <1>3 DEF FarEnd
<1>4. CASE Process
  <2>1. PICK s, event, x, by :
          LET after == ProcessEvent(s, event, x, by)
          IN phone' = after.phone /\ typed' = after.typed /\ called' = after.called
    BY <1>4 DEF Process
  <2>2. GoodMachine(ProcessEvent(s, event, x, by))
    BY ProcessKeeps
  <2>3. QED
    BY <2>1, <2>2 DEF IInv, GoodMachine
<1>5. CASE DigitTimeout
  <2>1. /\ phone' \in PHONE /\ phone'.number = phone.number
        /\ phone'.numberIndex = phone.numberIndex
        /\ typed' = typed /\ called' = called
    BY <1>5 DEF DigitTimeout, IInv, Good, PHONE
  <2>2. QED
    BY <2>1 DEF IInv, Good, Buffered
<1>6. CASE Operator
  BY <1>1, <1>6
  DEF Operator, SendByHand, ActionByHand, Connect, ConnectFails, InitServer, Shutdown, Reaction,
      Reload, DropEvents, CommandDone
<1>7. CASE UNCHANGED vars
  BY <1>1, <1>7 DEF vars
<1>8. QED
  BY <1>2, <1>3, <1>4, <1>5, <1>6, <1>7 DEF Next

-----------------------------------------------------------------------------
(* The buffer of the number holds what was dialled, whatever the keys, the *)
(* files, the commands and the breaks of the connection.                   *)
THEOREM Invariance == Spec => []IInv
  BY InitHolds, NextKeeps, PTL DEF Spec

(* numberIndex never leaves the buffer: dfmtEndDtmfStart refuses a digit   *)
(* for which inputNumber.number has no place.                              *)
THEOREM NumberFits ==
  Spec => [](/\ phone.numberIndex \in 0 .. VT_INPUT_NUM_MAX
             /\ Len(typed) <= VT_INPUT_NUM_MAX)
<1>1. IInv => phone.numberIndex \in 0 .. VT_INPUT_NUM_MAX /\ Len(typed) <= VT_INPUT_NUM_MAX
  BY DEF IInv, Good, Buffered, PHONE, Length
<1>2. QED
  BY <1>1, Invariance, PTL

(* The number called is the number dialled, unless a longer one was        *)
(* dialled before or a key stood for no digit (numDoneDtmfStart and        *)
(* dfmtEndDtmfStart): also when it fills the buffer, which then ends in no *)
(* NUL and is read on into numberIndex.                                    *)
THEOREM CalledDialled == Spec => []CalledIsDialled
<1>1. IInv => CalledIsDialled
  BY DEF IInv, Good, Dialled, CalledIsDialled
<1>2. QED
  BY <1>1, Invariance, PTL

-----------------------------------------------------------------------------
(* Folds as walks: the folds of the community modules choose a function    *)
(* on the subsets of the indices; its values on 1 .. i are a walk from the *)
(* first value to the last, which the lemmas below go along.               *)
(* Induction over the naturals, for a set of them.                         *)
LEMMA NumbersByInduction ==
  ASSUME NEW T, 0 \in T, \A n \in Nat : n \in T => n + 1 \in T
  PROVE  \A n \in Nat : n \in T
<1>. DEFINE Missing == {n \in Nat : n \notin T}
<1>1. SUFFICES ASSUME Missing # {} PROVE FALSE
  OBVIOUS
<1>2. PICK x \in Missing : \A y \in Missing : x <= y
  BY <1>1, LeastNumber
<1>3. x \in Nat /\ x # 0 /\ x - 1 \in Nat /\ (x - 1) + 1 = x
  BY <1>2
<1>4. x - 1 \in T
  BY <1>2, <1>3
<1>5. QED
  BY <1>2, <1>3, <1>4

(* What a fold computes: the values of a step g, from b on, for every set  *)
(* of places that a sequence of length n has.                              *)
Iterates(it, U, b, n, g) ==
  /\ it \in [SUBSET (1 .. n) -> U]
  /\ it[{}] = b
  /\ \A T \in SUBSET (1 .. n) : T # {} => it[T] = g[<<it[T \ {Max(T)}], Max(T)>>]

LEMMA GreatestOf ==
  ASSUME NEW n \in Nat, NEW T \in SUBSET (1 .. n + 1), n + 1 \in T
  PROVE  Max(T) = n + 1
<1>1. \A y \in T : n + 1 >= y
  OBVIOUS
<1>2. \A x \in T : (\A y \in T : x >= y) => x = n + 1
  <2>1. ASSUME NEW x \in T, \A y \in T : x >= y PROVE x = n + 1
    <3>1. x >= n + 1 /\ n + 1 >= x /\ x \in Int
      BY <1>1, <2>1
    <3>2. QED
      BY <3>1
  <2>2. QED
    BY <2>1
<1>3. QED
  BY <1>1, <1>2, Zenon DEF Max

LEMMA GreatestUpTo ==
  ASSUME NEW n \in Nat, n # 0
  PROVE  Max(1 .. n) = n /\ (1 .. n) \ {n} = 1 .. n - 1
<1>1. Max(1 .. n) = n
  BY DEF Max
<1>2. QED
  BY <1>1

(* A nonempty set of places has a greatest one.                            *)
LEMMA GreatestIn ==
  ASSUME NEW n \in Nat, NEW T \in SUBSET (1 .. n), T # {}
  PROVE  Max(T) \in T /\ \A y \in T : Max(T) >= y
<1>. DEFINE R == {n - y : y \in T}
<1>1. R \subseteq Nat /\ R # {}
  <2>1. \A y \in T : n - y \in Nat
    OBVIOUS
  <2>2. QED
    BY <2>1
<1>2. PICK r \in R : \A y \in R : r <= y
  BY <1>1, LeastNumber
<1>3. PICK x \in T : r = n - x
  BY <1>2
<1>4. ASSUME NEW y \in T PROVE x >= y
  <2>1. n - y \in R
    OBVIOUS
  <2>2. n - x <= n - y
    BY <1>2, <1>3, <2>1
  <2>3. QED
    BY <2>2
<1>5. QED
  BY <1>4, Zenon DEF Max

LEMMA Iteration ==
  ASSUME NEW U, NEW b \in U, NEW m \in Nat, NEW g \in [U \X (1 .. m) -> U]
  PROVE  \E it : Iterates(it, U, b, m, g)
<1>. DEFINE T == {n \in Nat : n <= m => \E it : Iterates(it, U, b, n, g)}
<1>1. 0 \in T
  <2>. DEFINE it == [S \in SUBSET (1 .. 0) |-> b]
  <2>1. 1 .. 0 = {}
    OBVIOUS
  <2>2. it \in [SUBSET (1 .. 0) -> U] /\ it[{}] = b
    OBVIOUS
  <2>3. \A S \in SUBSET (1 .. 0) : S = {}
    BY <2>1
  <2>. HIDE DEF it
  <2>4. Iterates(it, U, b, 0, g)
    BY <2>2, <2>3 DEF Iterates
  <2>5. QED
    BY <2>4
<1>2. ASSUME NEW n \in Nat, n \in T, n + 1 <= m
      PROVE  \E it : Iterates(it, U, b, n + 1, g)
  <2>1. PICK f : Iterates(f, U, b, n, g)
    BY <1>2
  <2>. DEFINE it == [S \in SUBSET (1 .. n + 1) |->
                       IF n + 1 \in S THEN g[<<f[S \ {n + 1}], n + 1>>] ELSE f[S]]
  <2>2. ASSUME NEW S \in SUBSET (1 .. n + 1)
        PROVE  /\ S \ {n + 1} \in SUBSET (1 .. n)
               /\ n + 1 \notin S => S \in SUBSET (1 .. n)
    OBVIOUS
  <2>3. \A S \in SUBSET (1 .. n) : f[S] \in U
    BY <2>1 DEF Iterates
  <2>4. n + 1 \in 1 .. m
    BY <1>2
  <2>5. it \in [SUBSET (1 .. n + 1) -> U]
    <3>1. ASSUME NEW S \in SUBSET (1 .. n + 1)
          PROVE  (IF n + 1 \in S THEN g[<<f[S \ {n + 1}], n + 1>>] ELSE f[S]) \in U
      <4>1. ASSUME n + 1 \in S PROVE <<f[S \ {n + 1}], n + 1>> \in U \X (1 .. m)
        BY <2>2, <2>3, <2>4
      <4>2. QED
        BY <2>2, <2>3, <4>1
    <3>2. QED
      BY <3>1
  <2>6. \A S \in SUBSET (1 .. n + 1) :
          it[S] = IF n + 1 \in S THEN g[<<f[S \ {n + 1}], n + 1>>] ELSE f[S]
    OBVIOUS
  <2>. HIDE DEF it
  <2>7. \A S \in SUBSET (1 .. n) : it[S] = f[S] /\ S \in SUBSET (1 .. n + 1)
    <3>1. ASSUME NEW S \in SUBSET (1 .. n)
          PROVE S \in SUBSET (1 .. n + 1) /\ n + 1 \notin S
      OBVIOUS
    <3>2. QED
      BY <2>6, <3>1
  <2>8. it[{}] = b
    BY <2>1, <2>7 DEF Iterates
  <2>9. ASSUME NEW S \in SUBSET (1 .. n + 1), S # {}
        PROVE  it[S] = g[<<it[S \ {Max(S)}], Max(S)>>]
    <3>1. CASE n + 1 \in S
      <4>1. Max(S) = n + 1
        BY <3>1, GreatestOf
      <4>2. it[S \ {n + 1}] = f[S \ {n + 1}]
        BY <2>2, <2>7
      <4>3. it[S] = g[<<f[S \ {n + 1}], n + 1>>]
        BY <2>6, <3>1
      <4>4. QED
        BY <4>1, <4>2, <4>3
    <3>2. CASE n + 1 \notin S
      <4>1. S \in SUBSET (1 .. n)
        BY <2>2, <3>2
      <4>2. it[S] = f[S] /\ it[S \ {Max(S)}] = f[S \ {Max(S)}]
        BY <2>7, <4>1
      <4>3. f[S] = g[<<f[S \ {Max(S)}], Max(S)>>]
        BY <2>1, <2>9, <4>1 DEF Iterates
      <4>4. QED
        BY <4>2, <4>3
    <3>3. QED
      BY <3>1, <3>2
  <2>10. Iterates(it, U, b, n + 1, g)
    BY <2>5, <2>8, <2>9 DEF Iterates
  <2>11. QED
    BY <2>10
<1>3. \A n \in Nat : n \in T => n + 1 \in T
  <2>1. ASSUME NEW n \in Nat, n \in T PROVE n + 1 \in T
    BY <1>2, <2>1
  <2>2. QED
    BY <2>1
<1>. HIDE DEF T
<1>4. m \in T
  BY <1>1, <1>3, NumbersByInduction
<1>5. QED
  BY <1>4 DEF T

(* Such a fold, place by place; a step need be known for values of U only. *)
Walks(f, U, b, n, g, v) ==
  /\ f \in [0 .. n -> U]
  /\ f[0] = b /\ f[n] = v
  /\ \A i \in 1 .. n : f[i] = g[<<f[i - 1], i>>]

Folds(c, U, b, n, g) ==
  /\ c[{}] = b
  /\ \A T \in SUBSET (1 .. n) : T # {} /\ c[T \ {Max(T)}] \in U =>
       c[T] = g[<<c[T \ {Max(T)}], Max(T)>>]

LEMMA FoldWalk ==
  ASSUME NEW U, NEW b \in U, NEW n \in Nat, NEW g \in [U \X (1 .. n) -> U], NEW c,
         Folds(c, U, b, n, g)
  PROVE  \E f : Walks(f, U, b, n, g, c[1 .. n])
<1>. DEFINE f == [i \in 0 .. n |-> c[1 .. i]]
<1>1. f[0] = b
  <2>1. 1 .. 0 = {}
    OBVIOUS
  <2>2. 0 \in 0 .. n
    OBVIOUS
  <2>3. QED
    BY <2>1, <2>2 DEF Folds
<1>2. ASSUME NEW i \in 1 .. n, f[i - 1] \in U
      PROVE  f[i] = g[<<f[i - 1], i>>] /\ f[i] \in U
  <2>1. Max(1 .. i) = i /\ (1 .. i) \ {i} = 1 .. i - 1 /\ i - 1 \in 0 .. n /\ i \in 0 .. n
    BY GreatestUpTo
  <2>2. (1 .. i) \in SUBSET (1 .. n) /\ 1 .. i # {}
    <3>1. i \in 1 .. i
      OBVIOUS
    <3>2. \A j \in 1 .. i : j \in 1 .. n
      OBVIOUS
    <3>3. QED
      BY <3>1, <3>2
  <2>3. f[i - 1] = c[1 .. i - 1] /\ f[i] = c[1 .. i]
    BY <2>1
  <2>. HIDE DEF f
  <2>4. c[1 .. i] = g[<<c[1 .. i - 1], i>>]
    BY <1>2, <2>1, <2>2, <2>3 DEF Folds
  <2>5. <<f[i - 1], i>> \in U \X (1 .. n)
    BY <1>2
  <2>6. QED
    BY <2>3, <2>4, <2>5
<1>. HIDE DEF f
<1>3. \A i \in 0 .. n : f[i] \in U
  <2>. DEFINE T == {i \in Nat : i <= n => f[i] \in U}
  <2>1. 0 \in T
    BY <1>1
  <2>2. ASSUME NEW i \in Nat, i \in T PROVE i + 1 \in T
    <3>1. ASSUME i + 1 <= n PROVE f[i + 1] \in U
      <4>1. i + 1 \in 1 .. n /\ (i + 1) - 1 = i /\ f[i] \in U
        BY <2>2, <3>1
      <4>2. QED
        BY <1>2, <4>1
    <3>2. QED
      BY <3>1
  <2>. HIDE DEF T
  <2>3. \A i \in Nat : i \in T
    BY <2>1, <2>2, NumbersByInduction
  <2>4. ASSUME NEW i \in 0 .. n
        PROVE  f[i] \in U
    <3>1. i \in T /\ i <= n
      BY <2>3
    <3>2. QED
      BY <3>1 DEF T
  <2>5. QED
    BY <2>4
<1>4. \A i \in 1 .. n : f[i] = g[<<f[i - 1], i>>]
  <2>1. \A i \in 1 .. n : i - 1 \in 0 .. n
    OBVIOUS
  <2>2. QED
    BY <1>2, <1>3, <2>1
<1>5. f \in [0 .. n -> U] /\ f[n] = c[1 .. n]
  BY <1>3 DEF f
<1>6. QED
  BY <1>1, <1>4, <1>5 DEF Walks

-----------------------------------------------------------------------------
(* The shape of the link, which every function of vt_send.c keeps.         *)
SERVER == [ring : SUBSET Int, channels : SUBSET Int, rtp : SUBSET Int, dsp : BOOLEAN]
LINK ==
  [sock : {"none", "open", "dead"}, good : Int, fate : {"fails", "vanishes"},
   dspStart : BOOLEAN, openChannel : [Endpts -> -1 .. MAX_CNX], server : SERVER,
   result : {"OK", "FAILED", "INVAIL_ARG"}, lost : BOOLEAN, beyond : BOOLEAN]

LEMMA LinkUpdates ==
  ASSUME NEW s \in LINK
  PROVE  /\ \A v \in {"none", "open", "dead"} : [s EXCEPT !.sock = v] \in LINK
         /\ \A v \in Int : [s EXCEPT !.good = v] \in LINK
         /\ \A v \in {"fails", "vanishes"} : [s EXCEPT !.fate = v] \in LINK
         /\ \A v \in BOOLEAN : [s EXCEPT !.dspStart = v] \in LINK
         /\ \A v \in [Endpts -> -1 .. MAX_CNX] : [s EXCEPT !.openChannel = v] \in LINK
         /\ \A v \in SERVER : [s EXCEPT !.server = v] \in LINK
         /\ \A v \in {"OK", "FAILED", "INVAIL_ARG"} : [s EXCEPT !.result = v] \in LINK
         /\ \A v \in BOOLEAN : [s EXCEPT !.lost = v] \in LINK
         /\ \A v \in BOOLEAN : [s EXCEPT !.beyond = v] \in LINK
  BY DEF LINK

LEMMA ServerServes ==
  ASSUME NEW v \in SERVER, NEW cmd, NEW id \in Int
  PROVE  Served(v, cmd, id) \in SERVER
  BY DEF SERVER, Served

LEMMA Returns ==
  ASSUME NEW s \in LINK, NEW r \in {"OK", "FAILED", "INVAIL_ARG"}
  PROVE  /\ Return(s, r) \in LINK /\ Return(s, r).result = r
         /\ Return(s, r).server = s.server /\ Return(s, r).openChannel = s.openChannel
  BY DEF Return, LINK

(* A message that was sent has been served, or is lost.                    *)
LEMMA MsgSent ==
  ASSUME NEW s \in LINK, NEW cmd, NEW id \in Int
  PROVE  LET n == SendMsgToServer(s, cmd, id)
         IN /\ n \in LINK /\ n.openChannel = s.openChannel
            /\ \/ n.result = "FAILED"
               \/ n.lost
               \/ n.server = Served(s.server, cmd, id)
<1>. DEFINE v == Served(s.server, cmd, id)
            n == SendMsgToServer(s, cmd, id)
<1>1. v \in SERVER /\ s.good \in Int
  BY ServerServes DEF LINK
<1>2. CASE s.sock = "open" /\ s.good > 0
  <2>1. n = [[[s EXCEPT !.good = s.good - 1] EXCEPT !.server = v] EXCEPT !.result = "OK"]
    BY <1>2 DEF SendMsgToServer, LINK
  <2>. HIDE DEF v, n
  <2>2. PICK a : a = [s EXCEPT !.good = s.good - 1]
    OBVIOUS
  <2>3. a \in LINK /\ a.openChannel = s.openChannel
    BY <1>1, <2>2 DEF LINK
  <2>4. PICK b : b = [a EXCEPT !.server = v]
    OBVIOUS
  <2>5. b \in LINK /\ b.openChannel = s.openChannel /\ b.server = v
    BY <1>1, <2>3, <2>4 DEF LINK
  <2>6. n = [b EXCEPT !.result = "OK"]
    BY <2>1, <2>2, <2>4
  <2>7. n \in LINK /\ n.openChannel = s.openChannel /\ n.server = v
    BY <2>5, <2>6 DEF LINK
  <2>8. QED
    BY <2>7 DEF v, n
<1>3. CASE s.sock = "open" /\ s.good = 0 /\ s.fate = "vanishes"
  <2>1. n = [[[s EXCEPT !.sock = "dead"] EXCEPT !.lost = TRUE] EXCEPT !.result = "OK"]
    BY <1>3 DEF SendMsgToServer, LINK
  <2>. HIDE DEF v, n
  <2>2. PICK a : a = [s EXCEPT !.sock = "dead"]
    OBVIOUS
  <2>3. a \in LINK /\ a.openChannel = s.openChannel
    BY <2>2 DEF LINK
  <2>4. PICK b : b = [a EXCEPT !.lost = TRUE]
    OBVIOUS
  <2>5. b \in LINK /\ b.openChannel = s.openChannel /\ b.lost
    BY <2>3, <2>4 DEF LINK
  <2>6. n = [b EXCEPT !.result = "OK"]
    BY <2>1, <2>2, <2>4
  <2>7. n \in LINK /\ n.openChannel = s.openChannel /\ n.lost
    BY <2>5, <2>6 DEF LINK
  <2>8. QED
    BY <2>7 DEF n
<1>4. CASE s.sock = "open" /\ s.good = 0 /\ s.fate = "fails"
  <2>1. n = [[s EXCEPT !.sock = "dead"] EXCEPT !.result = "FAILED"]
    BY <1>4 DEF SendMsgToServer, LINK
  <2>. HIDE DEF v, n
  <2>2. PICK a : a = [s EXCEPT !.sock = "dead"]
    OBVIOUS
  <2>3. a \in LINK /\ a.openChannel = s.openChannel
    BY <2>2 DEF LINK
  <2>4. n = [a EXCEPT !.result = "FAILED"]
    BY <2>1, <2>2
  <2>5. n \in LINK /\ n.openChannel = s.openChannel /\ n.result = "FAILED"
    BY <2>3, <2>4 DEF LINK
  <2>6. QED
    BY <2>5 DEF n
<1>5. CASE ~ (/\ s.sock = "open"
              /\ \/ s.good > 0
                 \/ s.good = 0 /\ s.fate = "vanishes"
                 \/ s.good = 0 /\ s.fate = "fails")
  <2>1. n = Return(s, "FAILED")
    BY <1>5 DEF SendMsgToServer
  <2>2. QED
    BY <2>1, Returns
<1>6. QED
  BY <1>2, <1>3, <1>4, <1>5

(* The functions of vt_send.c. *)
LEMMA DspSent ==
  ASSUME NEW s \in LINK
  PROVE  vt_sendDspStart(s) \in LINK /\ vt_sendDspStop(s) \in LINK
<1>1. /\ [s EXCEPT !.dspStart = TRUE] \in LINK
      /\ [s EXCEPT !.dspStart = FALSE] \in LINK
  BY LinkUpdates
<1>2. ASSUME NEW u \in LINK, NEW cmd PROVE SendMsgToServer(u, cmd, 0) \in LINK
  BY MsgSent
<1>3. Return(s, "OK") \in LINK
  BY Returns
<1>4. QED
  BY <1>1, <1>2, <1>3, Zenon DEF vt_sendDspStart, vt_sendDspStop

LEMMA ForEndptSent ==
  ASSUME NEW s \in LINK, NEW e \in Int
  PROVE  /\ vt_sendRingStart(s, e) \in LINK /\ vt_sendRingStop(s, e) \in LINK
         /\ vt_sendSlicControl(s, e) \in LINK /\ vt_sendTonePlay(s, e) \in LINK
         /\ vt_sendCidPlay(s, e) \in LINK /\ vt_sendChannelDefault(s, e) \in LINK
<1>1. \A cmd : SendForEndpt(s, cmd, e) \in LINK
  BY MsgSent, Returns DEF SendForEndpt
<1>2. vt_sendCidPlay(s, e) \in LINK
  BY MsgSent, Returns DEF vt_sendCidPlay
<1>3. vt_sendChannelDefault(s, e) \in LINK
  BY MsgSent DEF vt_sendChannelDefault
<1>4. QED
  BY <1>1, <1>2, <1>3 DEF vt_sendRingStart, vt_sendRingStop, vt_sendSlicControl, vt_sendTonePlay

LEMMA ChannelOpened ==
  ASSUME NEW s \in LINK, NEW e \in Int, NEW wanted \in Int
  PROVE  vt_sendChannelOpen(s, e, wanted) \in LINK
<1>. DEFINE channel == IF wanted < 0 THEN e ELSE wanted
            sent == SendMsgToServer(s, "VOIP_CHANNEL_OPEN", channel)
<1>1. channel \in Int
  OBVIOUS
<1>2. sent \in LINK
  BY <1>1, MsgSent
<1>3. vt_sendChannelOpen(s, e, wanted) =
        IF channel \notin 0 .. MAX_CNX \/ e \notin 0 .. VT_ENDPT_MAX THEN Return(s, "FAILED")
        ELSE IF Failed(sent) THEN sent ELSE vt_setOpenChannel(sent, e, channel)
  BY DEF vt_sendChannelOpen
<1>. HIDE DEF sent, channel
<1>4. ASSUME channel \in 0 .. MAX_CNX
      PROVE  vt_setOpenChannel(sent, e, channel) \in LINK
  <2>1. ASSUME e \in Endpts
        PROVE  [sent EXCEPT !.openChannel[e] = channel] \in LINK
    <3>1. [sent.openChannel EXCEPT ![e] = channel] \in [Endpts -> -1 .. MAX_CNX]
      BY <1>2, <1>4, <2>1 DEF LINK, MAX_CNX
    <3>2. [sent EXCEPT !.openChannel = [sent.openChannel EXCEPT ![e] = channel]] \in LINK
      BY <1>2, <3>1, LinkUpdates
    <3>3. QED
      BY <3>2
  <2>2. [sent EXCEPT !.beyond = TRUE] \in LINK
    BY <1>2, LinkUpdates
  <2>3. QED
    BY <2>1, <2>2 DEF vt_setOpenChannel
<1>5. QED
  BY <1>2, <1>3, <1>4, Returns

LEMMA OpenChannelIs ==
  ASSUME NEW s \in LINK, NEW e
  PROVE  vt_getOpenChannel(s, e) \in Int
  BY DEF vt_getOpenChannel, LINK, MAX_CNX

(* Voice is started on the channel of the endpoint, which is opened before *)
(* if need be: what does not fail leaves the channel with voice.           *)
LEMMA RtpStarted ==
  ASSUME NEW s \in LINK, NEW e \in Int
  PROVE  LET n == vt_sendRtpActive(s, e)
         IN /\ n \in LINK
            /\ e \in Endpts /\ ~ Failed(n) /\ ~ n.lost => n.openChannel[e] \in n.server.rtp
<1>. DEFINE ready == IF vt_getOpenChannel(s, e) < 0
                       THEN vt_sendChannelOpen(s, e, e) ELSE Return(s, "OK")
            channel == vt_getOpenChannel(ready, e)
            sent == SendMsgToServer(ready, "VOIP_RTP_ACTIVE", channel)
            n == vt_sendRtpActive(s, e)
<1>1. ready \in LINK
  BY ChannelOpened, Returns
<1>2. n = CASE e = VT_ENDPT_MAX -> [s EXCEPT !.beyond = TRUE]
            [] e # VT_ENDPT_MAX /\ Failed(ready) -> ready
            [] OTHER -> sent
  BY DEF vt_sendRtpActive
<1>. HIDE DEF ready
<1>3. channel \in Int
  BY <1>1, OpenChannelIs
<1>. HIDE DEF channel
<1>4. /\ sent \in LINK /\ sent.openChannel = ready.openChannel
      /\ \/ sent.result = "FAILED"
         \/ sent.lost
         \/ sent.server = Served(ready.server, "VOIP_RTP_ACTIVE", channel)
  BY <1>1, <1>3, MsgSent
<1>. HIDE DEF sent
<1>5. Served(ready.server, "VOIP_RTP_ACTIVE", channel).rtp = ready.server.rtp \union {channel}
  BY <1>1 DEF Served, LINK, SERVER
<1>6. [s EXCEPT !.beyond = TRUE] \in LINK
  BY LinkUpdates
<1>. HIDE DEF n
<1>7. CASE e = VT_ENDPT_MAX
  <2>1. n \in LINK
    BY <1>2, <1>6, <1>7
  <2>2. e \notin Endpts
    BY <1>7 DEF Endpts, VT_ENDPT_MAX
  <2>3. QED
    BY <2>1, <2>2 DEF n
<1>8. CASE e # VT_ENDPT_MAX /\ Failed(ready)
  <2>1. n = ready
    BY <1>2, <1>8
  <2>2. QED
    BY <1>1, <1>8, <2>1 DEF n
<1>9. CASE e # VT_ENDPT_MAX /\ ~ Failed(ready)
  <2>1. n = sent
    BY <1>2, <1>9
  <2>2. ASSUME e \in Endpts, ~ Failed(sent), ~ sent.lost
        PROVE  sent.openChannel[e] \in sent.server.rtp
    <3>1. sent.openChannel[e] = channel
      BY <1>4, <2>2 DEF channel, vt_getOpenChannel
    <3>2. sent.server = Served(ready.server, "VOIP_RTP_ACTIVE", channel)
      BY <1>4, <2>2 DEF Failed
    <3>3. QED
      BY <1>5, <3>1, <3>2
  <2>3. QED
    BY <1>4, <2>1, <2>2 DEF n
<1>10. QED
  BY <1>7, <1>8, <1>9

LEMMA RtpStopped ==
  ASSUME NEW s \in LINK, NEW e \in Int
  PROVE  vt_sendRtpDeactive(s, e) \in LINK
<1>1. [s EXCEPT !.beyond = TRUE] \in LINK
  BY LinkUpdates
<1>2. vt_getOpenChannel(s, e) \in Int
  BY OpenChannelIs
<1>3. SendMsgToServer(s, "VOIP_RTP_DEACTIVE", vt_getOpenChannel(s, e)) \in LINK
  BY <1>2, MsgSent
<1>4. QED
  BY <1>1, <1>3, Returns DEF vt_sendRtpDeactive

-----------------------------------------------------------------------------
(* The handlers of the send commands.                                      *)
(* What a handler can find in its line of words: what was typed or read    *)
(* from a file, and the texts the program puts in itself, which the        *)
(* provers do not know for members of STRING.                              *)
TEXTS == STRING \union {"", "hzg", "ip", "junk"}
ARGUMENT == [kind : {"number", "text", "option"}, number : Int, text : TEXTS]

LEMMA OneElement ==
  ASSUME NEW S, NEW e \in S
  PROVE  <<e>> \in Seq(S) /\ <<e>> # << >>
  OBVIOUS

LEMMA FirstWord ==
  ASSUME NEW words \in Seq(ARGUMENT), words # << >>
  PROVE  Len(words) >= 1 /\ words[1] \in ARGUMENT /\ words[1].number \in Int
<1>1. Len(words) >= 1
  BY EmptySeq
<1>2. words[1] \in ARGUMENT
  BY <1>1
<1>3. QED
  BY <1>1, <1>2 DEF ARGUMENT

LEMMA WordsAreWords ==
  /\ \A n \in Int : Number(n) \in ARGUMENT
  /\ \A t \in TEXTS : Text(t) \in ARGUMENT /\ Option(t) \in ARGUMENT
  /\ Blank \in Seq(ARGUMENT) /\ Blank # << >>
<1>1. \A n \in Int : Number(n) \in ARGUMENT
  BY DEF Number, ARGUMENT, TEXTS
<1>2. \A t \in TEXTS : Text(t) \in ARGUMENT /\ Option(t) \in ARGUMENT
  BY DEF Text, Option, ARGUMENT
<1>3. Blank \in Seq(ARGUMENT) /\ Blank # << >>
  <2>1. Text("") \in ARGUMENT
    BY <1>2 DEF TEXTS
  <2>2. <<Text("")>> \in Seq(ARGUMENT) /\ <<Text("")>> # << >>
    BY <2>1, OneElement, Zenon
  <2>3. QED
    BY <2>2, Zenon DEF Blank
<1>4. QED
  BY <1>1, <1>2, <1>3

(* The handlers that want an endpoint and other numbers. *)
LEMMA EndptHandlers ==
  ASSUME NEW s \in LINK, NEW words \in Seq(ARGUMENT)
  PROVE  /\ cli_sendRingStartHandler(s, words) \in LINK
         /\ cli_sendRingStopHandler(s, words) \in LINK
         /\ cli_sendSlicControlHandler(s, words) \in LINK
         /\ cli_sendTonePlayHandler(s, words) \in LINK
         /\ cli_sendRtpDeactiveHandler(s, words) \in LINK
<1>1. Return(s, "INVAIL_ARG") \in LINK
  BY Returns
<1>2. words # << >> => words[1].number \in Int
  BY FirstWord
<1>3. cli_sendRingStartHandler(s, words) \in LINK
  BY <1>1, <1>2, ForEndptSent DEF cli_sendRingStartHandler, WithEndpt
<1>4. cli_sendRingStopHandler(s, words) \in LINK
  BY <1>1, <1>2, ForEndptSent DEF cli_sendRingStopHandler, WithEndpt
<1>5. cli_sendSlicControlHandler(s, words) \in LINK
  BY <1>1, <1>2, ForEndptSent DEF cli_sendSlicControlHandler, WithEndpt
<1>6. cli_sendTonePlayHandler(s, words) \in LINK
  BY <1>1, <1>2, ForEndptSent DEF cli_sendTonePlayHandler, WithEndpt
<1>7. cli_sendRtpDeactiveHandler(s, words) \in LINK
  BY <1>1, <1>2, RtpStopped DEF cli_sendRtpDeactiveHandler, WithEndpt
<1>8. QED
  BY <1>3, <1>4, <1>5, <1>6, <1>7

LEMMA RegionHandlers ==
  ASSUME NEW s \in LINK, NEW words
  PROVE  /\ cli_sendSlicLocaleHandler(s, words) \in LINK
         /\ cli_sendDspDefaultHandler(s, words) \in LINK
         /\ cli_sendDspStartHandler(s, words) \in LINK
         /\ cli_sendDspStopHandler(s, words) \in LINK
<1>1. \A region, cmd : SendLocaleInternal(s, region, cmd) \in LINK
  BY MsgSent, Returns DEF SendLocaleInternal
<1>2. vt_sendDspStart(s) \in LINK /\ vt_sendDspStop(s) \in LINK
  BY DspSent
<1>3. \A u \in LINK : Return(u, "OK") \in LINK
  BY Returns
<1>4. QED
  BY <1>1, <1>2, <1>3, Zenon
  DEF cli_sendSlicLocaleHandler, cli_sendDspDefaultHandler, cli_sendDspStartHandler,
      cli_sendDspStopHandler

LEMMA ChannelHandlers ==
  ASSUME NEW s \in LINK, NEW words \in Seq(ARGUMENT)
  PROVE  /\ cli_sendChannelDefaultHandler(s, words) \in LINK
         /\ cli_sendCidPlayHandler(s, words) \in LINK
         /\ cli_sendChannelOpenHandler(s, words) \in LINK
<1>1. Return(s, "INVAIL_ARG") \in LINK
  BY Returns
<1>2. words # << >> => words[1].number \in Int
  BY FirstWord
<1>3. cli_sendChannelDefaultHandler(s, words) \in LINK
  <2>1. Len(words) = 1 => words # << >>
    OBVIOUS
  <2>2. QED
    BY <1>1, <1>2, <2>1, ForEndptSent DEF cli_sendChannelDefaultHandler
<1>4. cli_sendCidPlayHandler(s, words) \in LINK
  <2>1. \A e \in Int : vt_sendCidPlay(s, e) \in LINK
    BY ForEndptSent
  <2>2. QED
    BY <1>1, <1>2, <2>1 DEF cli_sendCidPlayHandler
<1>5. cli_sendChannelOpenHandler(s, words) \in LINK
  <2>1. AreInts(words, 6) => words[1].number \in Int /\ words[2].number \in Int
    <3>1. AreInts(words, 6) => Len(words) >= 6
      BY DEF AreInts
    <3>2. Len(words) >= 6 => words[1] \in ARGUMENT /\ words[2] \in ARGUMENT
      OBVIOUS
    <3>3. QED
      BY <3>1, <3>2 DEF ARGUMENT
  <2>2. QED
    BY <1>1, <2>1, ChannelOpened DEF cli_sendChannelOpenHandler
<1>6. QED
  BY <1>3, <1>4, <1>5

(* Of the arguments the first counts, wherever options stand.              *)
LEMMA RtpHandler ==
  ASSUME NEW s \in LINK, NEW words \in Seq(ARGUMENT)
  PROVE  cli_sendRtpActiveHandler(s, words) \in LINK
<1>. DEFINE argv == Arguments(words)
            first == words[CHOOSE i \in argv : \A j \in argv : i <= j]
<1>1. vt_sendRtpActive(s, 0) \in LINK /\ Return(s, "INVAIL_ARG") \in LINK
  BY RtpStarted, Returns
<1>2. argv # {} => first.number \in Int
  <2>1. argv \subseteq Nat /\ argv \subseteq 1 .. Len(words)
    BY DEF Arguments
  <2>. HIDE DEF argv
  <2>2. argv # {} => (CHOOSE i \in argv : \A j \in argv : i <= j) \in argv
    BY <2>1, LeastNumber
  <2>3. QED
    <3>. DEFINE i == CHOOSE i \in argv : \A j \in argv : i <= j
    <3>1. argv # {} => i \in 1 .. Len(words)
      BY <2>1, <2>2
    <3>. HIDE DEF i
    <3>2. argv # {} => words[i] \in ARGUMENT
      BY <3>1
    <3>3. QED
      BY <3>2 DEF ARGUMENT, i
<1>3. cli_sendRtpActiveHandler(s, words) =
        IF words = << >> THEN vt_sendRtpActive(s, 0)
        ELSE IF argv # {} /\ IsDigit(first) /\ first.number <= VT_ENDPT_MAX
               THEN vt_sendRtpActive(s, first.number)
        ELSE Return(s, "INVAIL_ARG")
  BY DEF cli_sendRtpActiveHandler
<1>. HIDE DEF argv, first
<1>4. argv # {} => vt_sendRtpActive(s, first.number) \in LINK
  BY <1>2, RtpStarted
<1>5. QED
  BY <1>1, <1>3, <1>4

LEMMA CommandSent ==
  ASSUME NEW s \in LINK, NEW name \in SendSubcmds, NEW words \in Seq(ARGUMENT)
  PROVE  SendCommand(s, name, words) \in LINK
  BY EndptHandlers, RegionHandlers, ChannelHandlers, RtpHandler
  DEF SendCommand, SendSubcmds

(* The handlers an action of a table can have. *)
RUNNABLE == [cmd : HandledCmds, data : Seq(ARGUMENT)]

LEMMA LineOfWords ==
  ASSUME NEW handler \in RUNNABLE, NEW words \in Seq(ARGUMENT), NEW junk \in Seq(ARGUMENT)
  PROVE  HandlerArgs(handler, words, junk) \in Seq(ARGUMENT)
<1>1. words # << >> => <<words[1]>> \in Seq(ARGUMENT)
  BY FirstWord
<1>2. PrepareHandlerData(handler.cmd, words, junk) \in Seq(ARGUMENT)
  BY <1>1 DEF PrepareHandlerData
<1>3. handler.data \in Seq(ARGUMENT)
  BY DEF RUNNABLE
<1>4. QED
  BY <1>2, <1>3, WordsAreWords, ConcatProperties DEF HandlerArgs

LEMMA HandlerRun ==
  ASSUME NEW s \in LINK, NEW handler \in RUNNABLE, NEW words \in Seq(ARGUMENT), NEW junk \in Seq(ARGUMENT)
  PROVE  RunHandler(s, handler, words, junk) \in LINK
<1>. DEFINE name == IF handler.cmd = "VOIP_TONE_STOP" THEN "VOIP_TONE_PLAY" ELSE handler.cmd
<1>1. name \in SendSubcmds
  BY DEF RUNNABLE, HandledCmds, SendSubcmds
<1>2. HandlerArgs(handler, words, junk) \in Seq(ARGUMENT)
  BY LineOfWords
<1>3. RunHandler(s, handler, words, junk) = SendCommand(s, name, HandlerArgs(handler, words, junk))
  BY DEF RunHandler
<1>. HIDE DEF name
<1>4. QED
  BY <1>1, <1>2, <1>3, CommandSent

-----------------------------------------------------------------------------
(* actionGo, handler by handler.                                           *)
AfterHandler(u, h, words, junk) ==
  IF Failed(u) \/ u.beyond THEN u ELSE RunHandler(u, h, words, junk)

ActionFold(it, s, handlers, words, junk) ==
  it = [T \in SUBSET DOMAIN handlers |->
          IF T = {} THEN Return(s, "OK")
          ELSE AfterHandler(it[T \ {Max(T)}], handlers[Max(T)], words, junk)]

LEMMA ActionIsFold ==
  ASSUME NEW s, NEW handlers, NEW words, NEW junk
  PROVE  ActionGo(s, handlers, words, junk) =
           (CHOOSE it : ActionFold(it, s, handlers, words, junk))[DOMAIN handlers]
  BY Zenon DEF ActionGo, FoldLeft, MapThenFoldSet, ActionFold, AfterHandler

LEMMA ActionSteps ==
  ASSUME NEW s \in LINK, NEW handlers \in Seq(RUNNABLE), NEW words \in Seq(ARGUMENT),
         NEW junk \in Seq(ARGUMENT)
  PROVE  \E f \in [0 .. Len(handlers) -> LINK] :
           /\ f[0] = Return(s, "OK")
           /\ \A i \in 1 .. Len(handlers) :
                f[i] = AfterHandler(f[i - 1], handlers[i], words, junk)
           /\ ActionGo(s, handlers, words, junk) = f[Len(handlers)]
<1>. DEFINE n == Len(handlers)
            b == Return(s, "OK")
            g == [p \in LINK \X (1 .. n) |-> AfterHandler(p[1], handlers[p[2]], words, junk)]
<1>1. /\ n \in Nat /\ DOMAIN handlers = 1 .. n /\ b \in LINK
      /\ \A i \in 1 .. n : handlers[i] \in RUNNABLE
  BY Returns
<1>2. \A u \in LINK, i \in 1 .. n : AfterHandler(u, handlers[i], words, junk) \in LINK
  BY <1>1, HandlerRun DEF AfterHandler
<1>3. g \in [LINK \X (1 .. n) -> LINK]
  BY <1>2
<1>4. \A u \in LINK, i \in 1 .. n : g[<<u, i>>] = AfterHandler(u, handlers[i], words, junk)
  OBVIOUS
<1>. HIDE DEF g, n, b
<1>5. PICK d : Iterates(d, LINK, b, n, g)
  BY <1>1, <1>3, Iteration
<1>6. ActionFold(d, s, handlers, words, junk)
  <2>1. ASSUME NEW T \in SUBSET (1 .. n), T # {}
        PROVE  d[T] = AfterHandler(d[T \ {Max(T)}], handlers[Max(T)], words, junk)
    <3>1. Max(T) \in 1 .. n /\ d[T \ {Max(T)}] \in LINK
      <4>1. Max(T) \in T
        BY <1>1, <2>1, GreatestIn
      <4>2. T \ {Max(T)} \in SUBSET (1 .. n)
        OBVIOUS
      <4>3. QED
        BY <1>5, <4>1, <4>2 DEF Iterates
    <3>2. QED
      BY <1>4, <1>5, <2>1, <3>1 DEF Iterates
  <2>2. d = [T \in SUBSET (1 .. n) |-> d[T]] /\ d[{}] = b
    BY <1>5 DEF Iterates
  <2>3. d = [T \in SUBSET (1 .. n) |->
               IF T = {} THEN b ELSE AfterHandler(d[T \ {Max(T)}], handlers[Max(T)], words, junk)]
    BY <2>1, <2>2
  <2>4. QED
    BY <1>1, <2>3, Zenon DEF ActionFold, b
<1>7. PICK c : /\ ActionFold(c, s, handlers, words, junk)
               /\ ActionGo(s, handlers, words, junk) = c[1 .. n]
  BY <1>1, <1>6, ActionIsFold, Zenon
<1>8. Folds(c, LINK, b, n, g)
  <2>1. c = [T \in SUBSET (1 .. n) |->
               IF T = {} THEN b ELSE AfterHandler(c[T \ {Max(T)}], handlers[Max(T)], words, junk)]
    BY <1>1, <1>7, Zenon DEF ActionFold, b
  <2>2. \A T \in SUBSET (1 .. n) :
          c[T] = IF T = {} THEN b
                 ELSE AfterHandler(c[T \ {Max(T)}], handlers[Max(T)], words, junk)
    BY <2>1, Zenon
  <2>3. {} \in SUBSET (1 .. n)
    OBVIOUS
  <2>4. \A T \in SUBSET (1 .. n) : T # {} => Max(T) \in 1 .. n
    BY <1>1, GreatestIn
  <2>5. QED
    BY <1>4, <2>2, <2>3, <2>4 DEF Folds
<1>9. PICK f : Walks(f, LINK, b, n, g, c[1 .. n])
  BY <1>1, <1>3, <1>8, FoldWalk
<1>10. \A i \in 1 .. n : f[i] = AfterHandler(f[i - 1], handlers[i], words, junk)
  <2>1. \A i \in 1 .. n : i - 1 \in 0 .. n
    BY <1>1
  <2>2. QED
    BY <1>4, <1>9, <2>1 DEF Walks
<1>11. QED
  BY <1>7, <1>9, <1>10 DEF Walks, n, b

-----------------------------------------------------------------------------
(* The table of actions, and the running of one.                           *)
LEMMA ActionLinks ==
  ASSUME NEW s \in LINK, NEW handlers \in Seq(RUNNABLE), NEW words \in Seq(ARGUMENT),
         NEW junk \in Seq(ARGUMENT)
  PROVE  ActionGo(s, handlers, words, junk) \in LINK
<1>1. PICK f \in [0 .. Len(handlers) -> LINK] :
        ActionGo(s, handlers, words, junk) = f[Len(handlers)]
  BY ActionSteps
<1>2. Len(handlers) \in 0 .. Len(handlers)
  OBVIOUS
<1>3. QED
  BY <1>1, <1>2

(* The tables, which loading keeps in shape. *)
NAMES == STRING \union {AllActionsDef[i].name : i \in DOMAIN AllActionsDef}
ENTRY == [name : NAMES, handlers : Seq(RUNNABLE) \union {NoHandlers}]
DYNAMIC == [event : Events, cur : States, index : Nat]
KEYROW == [key : Seq(STRING), index : Nat, stale : BOOLEAN]
TABLE ==
  [builtIn : BOOLEAN, actions : Seq(ENTRY), rows : [Rows -> Nat], dynamic : Seq(DYNAMIC),
   keys : Seq(KEYROW)]

LEMMA ActionRuns ==
  ASSUME NEW t \in TABLE, NEW index \in Nat, NEW s \in LINK, NEW words \in Seq(ARGUMENT),
         NEW junk \in Seq(ARGUMENT)
  PROVE  RunAction(t, index, s, words, junk) \in LINK
<1>1. Return(s, "OK") \in LINK /\ [s EXCEPT !.beyond = TRUE] \in LINK
  BY Returns, LinkUpdates
<1>2. ASSUME index # 0, ~ NoAction(t, index)
      PROVE  ActionGo(s, t.actions[index].handlers, words, junk) \in LINK
  <2>1. t.actions \in Seq(ENTRY)
    BY DEF TABLE
  <2>2. index \in 1 .. Len(t.actions) /\ t.actions[index].handlers # NoHandlers
    BY <1>2, <2>1 DEF NoAction
  <2>3. t.actions[index] \in ENTRY
    BY <2>1, <2>2
  <2>4. t.actions[index].handlers \in Seq(RUNNABLE)
    BY <2>2, <2>3 DEF ENTRY
  <2>5. QED
    BY <2>4, ActionLinks
<1>3. QED
  BY <1>1, <1>2 DEF RunAction

(* The built-in actions. *)
LEMMA TuplesAreSeqs ==
  ASSUME NEW S
  PROVE  /\ \A a \in S : <<a>> \in Seq(S)
         /\ \A a, b \in S : <<a, b>> \in Seq(S)
         /\ \A a, b, c \in S : <<a, b, c>> \in Seq(S)
         /\ \A a, b, c, d \in S : <<a, b, c, d>> \in Seq(S)
         /\ \A a, b, c, d, e \in S : <<a, b, c, d, e>> \in Seq(S)
  OBVIOUS

LEMMA HandlersMade ==
  /\ \A cmd \in HandledCmds, data \in Seq(ARGUMENT) : Handler(cmd, data) \in RUNNABLE
  /\ \A n \in Int : Slic(n) \in RUNNABLE
  /\ \A tone, time \in Int : Tone(tone, time) \in RUNNABLE
  /\ Silent \in Seq(ARGUMENT) /\ OpenArgs \in Seq(ARGUMENT)
<1>1. \A cmd \in HandledCmds, data \in Seq(ARGUMENT) : Handler(cmd, data) \in RUNNABLE
  BY DEF Handler, RUNNABLE
<1>2. \A n \in Int : Slic(n) \in RUNNABLE
  <2>1. ASSUME NEW n \in Int PROVE <<Number(n)>> \in Seq(ARGUMENT)
    BY WordsAreWords, TuplesAreSeqs
  <2>2. "VOIP_SLIC_CONTROL" \in HandledCmds
    BY DEF HandledCmds, SendSubcmds
  <2>3. QED
    BY <1>1, <2>1, <2>2 DEF Slic
<1>3. \A tone, time \in Int : Tone(tone, time) \in RUNNABLE
  <2>1. ASSUME NEW m \in Int, NEW n \in Int PROVE <<Number(m), Number(n)>> \in Seq(ARGUMENT)
    BY WordsAreWords, TuplesAreSeqs
  <2>2. "VOIP_TONE_PLAY" \in HandledCmds
    BY DEF HandledCmds, SendSubcmds
  <2>3. QED
    BY <1>1, <2>1, <2>2 DEF Tone
<1>4. OpenArgs \in Seq(ARGUMENT)
  <2>1. Number(-1) \in ARGUMENT /\ Number(0) \in ARGUMENT
    BY WordsAreWords
  <2>2. QED
    BY <2>1, TuplesAreSeqs, Zenon DEF OpenArgs
<1>5. QED
  BY <1>1, <1>2, <1>3, <1>4 DEF Silent

LEMMA BuiltInRuns ==
  /\ OffHook \in Seq(RUNNABLE) /\ OnHook \in Seq(RUNNABLE) /\ Calling \in Seq(RUNNABLE)
  /\ CallingFailed \in Seq(RUNNABLE) /\ Talking \in Seq(RUNNABLE) /\ BeCalled \in Seq(RUNNABLE)
  /\ AcceptCall \in Seq(RUNNABLE) /\ BeOnHook \in Seq(RUNNABLE) /\ MissCall \in Seq(RUNNABLE)
<1>1. \A cmd \in {"VOIP_RTP_ACTIVE", "VOIP_RTP_DEACTIVE", "VOIP_RING_STOP"} :
        Handler(cmd, Silent) \in RUNNABLE
  BY HandlersMade DEF HandledCmds, SendSubcmds
<1>2. Handler("VOIP_CHANNEL_OPEN", OpenArgs) \in RUNNABLE
  BY HandlersMade DEF HandledCmds, SendSubcmds
<1>3. Handler("VOIP_RING_START", <<Number(0)>>) \in RUNNABLE
  <2>1. <<Number(0)>> \in Seq(ARGUMENT) /\ "VOIP_RING_START" \in HandledCmds
    BY WordsAreWords, OneElement DEF HandledCmds, SendSubcmds
  <2>2. QED
    BY <2>1, HandlersMade, Zenon
<1>4. Handler("VOIP_CID_PLAY", <<Text("hzg")>>) \in RUNNABLE
  <2>1. <<Text("hzg")>> \in Seq(ARGUMENT) /\ "VOIP_CID_PLAY" \in HandledCmds
    BY WordsAreWords, OneElement DEF HandledCmds, SendSubcmds, TEXTS
  <2>2. QED
    BY <2>1, HandlersMade, Zenon
<1>5. /\ Slic(2) \in RUNNABLE /\ Slic(3) \in RUNNABLE /\ Slic(4) \in RUNNABLE
      /\ Tone(0, 200) \in RUNNABLE /\ Tone(1, 200) \in RUNNABLE /\ Tone(4, 200) \in RUNNABLE
      /\ Tone(2, 100) \in RUNNABLE /\ Tone(4, 100) \in RUNNABLE
  BY HandlersMade
<1>6. OffHook \in Seq(RUNNABLE) /\ OnHook \in Seq(RUNNABLE)
  BY <1>5, TuplesAreSeqs, Zenon DEF OffHook, OnHook
<1>7. Calling \in Seq(RUNNABLE) /\ CallingFailed \in Seq(RUNNABLE) /\ Talking \in Seq(RUNNABLE)
  BY <1>1, <1>2, <1>5, TuplesAreSeqs, Zenon DEF Calling, CallingFailed, Talking
<1>8. BeCalled \in Seq(RUNNABLE) /\ AcceptCall \in Seq(RUNNABLE)
  BY <1>1, <1>2, <1>3, <1>4, <1>5, TuplesAreSeqs, Zenon DEF BeCalled, AcceptCall
<1>9. BeOnHook \in Seq(RUNNABLE) /\ MissCall \in Seq(RUNNABLE)
  BY <1>1, <1>5, TuplesAreSeqs, Zenon DEF BeOnHook, MissCall
<1>10. QED
  BY <1>6, <1>7, <1>8, <1>9

LEMMA BuiltInActions == AllActionsDef \in Seq(ENTRY)
<1>1. \A name \in NAMES, handlers \in Seq(RUNNABLE) : Action(name, handlers) \in ENTRY
  BY DEF Action, ENTRY
<1>2. {"AcceptCall", "BeCalled", "BeOnHook", "Calling", "CallingFailed", "MissCall", "OnHook",
       "OffHook", "Talking"} \subseteq NAMES
  BY DEF NAMES, AllActionsDef, Action
<1>3. /\ Action("AcceptCall", AcceptCall) \in ENTRY /\ Action("BeCalled", BeCalled) \in ENTRY
      /\ Action("BeOnHook", BeOnHook) \in ENTRY /\ Action("Calling", Calling) \in ENTRY
      /\ Action("CallingFailed", CallingFailed) \in ENTRY
      /\ Action("MissCall", MissCall) \in ENTRY /\ Action("OnHook", OffHook) \in ENTRY
      /\ Action("OffHook", OnHook) \in ENTRY /\ Action("Talking", Talking) \in ENTRY
  BY <1>1, <1>2, BuiltInRuns
<1>4. ASSUME NEW a \in ENTRY, NEW b \in ENTRY, NEW c \in ENTRY, NEW d \in ENTRY,
             NEW e \in ENTRY, NEW f \in ENTRY, NEW g \in ENTRY, NEW h \in ENTRY,
             NEW i \in ENTRY
      PROVE  <<a, b, c, d, e, f, g, h, i>> \in Seq(ENTRY)
  OBVIOUS
<1>5. QED
  BY <1>3, <1>4 DEF AllActionsDef

-----------------------------------------------------------------------------
(* Registering an action. *)
LEMMA NamesKnown ==
  ASSUME NEW name
  PROVE  EventStrToInt(name) \in Events /\ StateStrToInt(name) \in States
  BY DEF EventStrToInt, StateStrToInt, Events, States

LEMMA Registered ==
  ASSUME NEW t \in TABLE, NEW event \in Events, NEW state \in States, NEW index \in Nat
  PROVE  /\ RegisterAction(t, event, state, index) \in TABLE
         /\ RegisterAction(t, event, state, index).actions = t.actions
<1>. DEFINE n == RegisterAction(t, event, state, index)
<1>1. CASE state = "MAX"
  <2>1. [r \in Rows |-> IF FsmCtxs[r].event = event THEN index ELSE t.rows[r]] \in [Rows -> Nat]
    BY DEF TABLE
  <2>2. n = [t EXCEPT !.rows =
               [r \in Rows |-> IF FsmCtxs[r].event = event THEN index ELSE t.rows[r]]]
    BY <1>1 DEF RegisterAction, UpdateActionIdxByEvent, TABLE
  <2>. HIDE DEF n
  <2>3. n \in TABLE /\ n.actions = t.actions
    BY <2>1, <2>2 DEF TABLE
  <2>4. QED
    BY <2>3 DEF n
<1>2. CASE state # "MAX" /\ ExactRow(event, state) # {}
  <2>1. [r \in Rows |-> IF r \in ExactRow(event, state) THEN index ELSE t.rows[r]]
          \in [Rows -> Nat]
    BY DEF TABLE
  <2>2. n = [t EXCEPT !.rows =
               [r \in Rows |-> IF r \in ExactRow(event, state) THEN index ELSE t.rows[r]]]
    BY <1>2 DEF RegisterAction, TABLE
  <2>. HIDE DEF n
  <2>3. n \in TABLE /\ n.actions = t.actions
    BY <2>1, <2>2 DEF TABLE
  <2>4. QED
    BY <2>3 DEF n
<1>3. CASE state # "MAX" /\ ExactRow(event, state) = {}
  <2>1. DynamicRow(event, state, index) \in DYNAMIC
    BY DEF DynamicRow, DYNAMIC
  <2>2. <<DynamicRow(event, state, index)>> \o t.dynamic \in Seq(DYNAMIC)
    <3>1. t.dynamic \in Seq(DYNAMIC)
      BY DEF TABLE
    <3>2. QED
      BY <2>1, <3>1, OneElement, ConcatProperties
  <2>3. n = [t EXCEPT !.dynamic = <<DynamicRow(event, state, index)>> \o t.dynamic]
    BY <1>3 DEF RegisterAction, TABLE
  <2>. HIDE DEF n
  <2>4. n \in TABLE /\ n.actions = t.actions
    BY <2>2, <2>3 DEF TABLE
  <2>5. QED
    BY <2>4 DEF n
<1>4. QED
  BY <1>1, <1>2, <1>3

LEMMA KeyRegistered ==
  ASSUME NEW t \in TABLE, NEW key \in Seq(STRING), NEW index \in Nat
  PROVE  /\ RegisterKeyAction(t, key, index) \in TABLE
         /\ RegisterKeyAction(t, key, index).actions = t.actions
<1>1. [key |-> key, index |-> index, stale |-> FALSE] \in KEYROW
  BY DEF KEYROW
<1>. DEFINE more == <<[key |-> key, index |-> index, stale |-> FALSE]>> \o t.keys
            n == RegisterKeyAction(t, key, index)
<1>2. more \in Seq(KEYROW)
  <2>1. t.keys \in Seq(KEYROW)
    BY DEF TABLE
  <2>2. QED
    BY <1>1, <2>1, OneElement, ConcatProperties
<1>3. n = [t EXCEPT !.keys = more]
  BY DEF RegisterKeyAction, TABLE
<1>. HIDE DEF n, more
<1>4. n \in TABLE /\ n.actions = t.actions
  BY <1>2, <1>3 DEF TABLE
<1>5. QED
  BY <1>4 DEF n

LEMMA NameAdded ==
  ASSUME NEW t \in TABLE, NEW a \in ENTRY
  PROVE  /\ [t EXCEPT !.actions = Append(@, a)] \in TABLE
         /\ Len([t EXCEPT !.actions = Append(@, a)].actions) = Len(t.actions) + 1
         /\ [t EXCEPT !.actions = Append(@, a)].rows = t.rows
         /\ [t EXCEPT !.actions = Append(@, a)].dynamic = t.dynamic
         /\ Len(t.actions) \in Nat
<1>. DEFINE more == Append(t.actions, a)
            n == [t EXCEPT !.actions = more]
<1>1. t.actions \in Seq(ENTRY)
  BY DEF TABLE
<1>2. more \in Seq(ENTRY) /\ Len(more) = Len(t.actions) + 1 /\ Len(t.actions) \in Nat
  BY <1>1, AppendProperties
<1>. HIDE DEF more
<1>3. n \in TABLE /\ n.actions = more /\ n.rows = t.rows /\ n.dynamic = t.dynamic
  BY <1>2 DEF TABLE
<1>4. QED
  BY <1>2, <1>3, Zenon DEF more

LEMMA TableDestroyed ==
  ASSUME NEW t \in TABLE
  PROVE  DestroyActions(t) \in TABLE
<1>. DEFINE keys == [k \in DOMAIN t.keys |-> [t.keys[k] EXCEPT !.stale = TRUE]]
<1>1. t.keys \in Seq(KEYROW)
  BY DEF TABLE
<1>2. \A k \in 1 .. Len(t.keys) : [t.keys[k] EXCEPT !.stale = TRUE] \in KEYROW
  <2>1. \A w \in KEYROW : [w EXCEPT !.stale = TRUE] \in KEYROW
    BY DEF KEYROW
  <2>2. QED
    BY <1>1, <2>1
<1>3. keys \in Seq(KEYROW)
  <2>1. keys \in [1 .. Len(t.keys) -> KEYROW] /\ Len(t.keys) \in Nat
    BY <1>1, <1>2
  <2>. HIDE DEF keys
  <2>2. QED
    BY <2>1, SeqDef
<1>4. DestroyActions(t) = [t EXCEPT !.keys = keys]
  BY DEF DestroyActions, TABLE
<1>. HIDE DEF keys
<1>5. QED
  BY <1>3, <1>4 DEF TABLE

-----------------------------------------------------------------------------
(* Loading a file of actions.                                              *)
LEMMA WordsOfFiles == \A words \in Seq(WORD) : words \in Seq(ARGUMENT)
<1>1. WORD \subseteq ARGUMENT
  BY DEF WORD, ARGUMENT, TEXTS
<1>2. QED
  BY <1>1, SeqMonotonic

LEMMA KnownHandler ==
  ASSUME NEW h \in HANDLER, GetCmdByTxt(h.cmd) \in HandledCmds
  PROVE  h \in RUNNABLE
<1>1. "UNKNOWN" \notin HandledCmds
  BY DEF HandledCmds, SendSubcmds
<1>2. h.cmd \in HandledCmds
  BY <1>1 DEF GetCmdByTxt
<1>3. h.data \in Seq(WORD)
  BY DEF HANDLER
<1>4. h.data \in Seq(ARGUMENT)
  BY <1>3, WordsOfFiles
<1>5. h = [cmd |-> h.cmd, data |-> h.data]
  BY DEF HANDLER
<1>6. QED
  BY <1>2, <1>4, <1>5 DEF RUNNABLE

(* parseHandler stops in front of the first command there is no handler for. *)
LEMMA HandlersParsed ==
  ASSUME NEW section \in SECTION
  PROVE  HandlersOf(section) \in Seq(RUNNABLE)
<1>. DEFINE cmds == section.cmds
            unknown == {i \in DOMAIN cmds : GetCmdByTxt(cmds[i].cmd) \notin HandledCmds}
            k == CHOOSE i \in unknown : \A j \in unknown : i <= j
<1>1. cmds \in Seq(HANDLER)
  BY DEF SECTION
<1>2. HandlersOf(section) = IF unknown = {} THEN cmds ELSE SubSeq(cmds, 1, k - 1)
  BY DEF HandlersOf
<1>. HIDE DEF cmds
<1>3. DOMAIN cmds = 1 .. Len(cmds) /\ Len(cmds) \in Nat
  BY <1>1
<1>4. \A i \in 1 .. Len(cmds) : i \notin unknown => cmds[i] \in RUNNABLE
  BY <1>1, <1>3, KnownHandler
<1>5. unknown \subseteq 1 .. Len(cmds)
  BY <1>3
<1>. HIDE DEF unknown
<1>6. CASE unknown = {}
  <2>1. cmds \in [1 .. Len(cmds) -> RUNNABLE]
    BY <1>1, <1>3, <1>4, <1>6
  <2>2. cmds \in Seq(RUNNABLE)
    BY <1>3, <2>1, SeqDef
  <2>3. QED
    BY <1>2, <1>6, <2>2
<1>7. CASE unknown # {}
  <2>1. k \in unknown /\ \A j \in unknown : k <= j
    <3>1. unknown \subseteq Nat
      BY <1>3, <1>5
    <3>2. \E i \in unknown : \A j \in unknown : i <= j
      BY <1>7, <3>1, LeastNumber
    <3>3. QED
      BY <3>2, Zenon
  <2>. HIDE DEF k
  <2>2. k \in 1 .. Len(cmds) /\ k - 1 \in Int
    BY <1>3, <1>5, <2>1
  <2>3. \A i \in 1 .. k - 1 : cmds[i] \in RUNNABLE
    <3>1. ASSUME NEW i \in 1 .. k - 1 PROVE i \in 1 .. Len(cmds) /\ ~ (k <= i)
      BY <1>3, <2>2
    <3>2. QED
      BY <1>4, <2>1, <3>1
  <2>4. SubSeq(cmds, 1, k - 1) \in Seq(RUNNABLE)
    <3>1. ASSUME NEW n \in Int, \A i \in 1 .. n : cmds[i] \in RUNNABLE
          PROVE  SubSeq(cmds, 1, n) \in Seq(RUNNABLE)
      <4>1. 1 \in Int
        OBVIOUS
      <4>2. QED
        BY <3>1, <4>1, SubSeqProperties, Zenon
    <3>2. QED
      BY <2>2, <2>3, <3>1
  <2>5. QED
    BY <1>2, <1>7, <2>4 DEF k
<1>8. QED
  BY <1>6, <1>7

-----------------------------------------------------------------------------
(* registerAction for the pairs of a section, one after the other.         *)
AfterPair(u, pair, index) ==
  RegisterAction(u, EventStrToInt(pair[1]), StateStrToInt(pair[2]), index)

PairFold(it, t, pairs, index) ==
  it = [T \in SUBSET DOMAIN pairs |->
          IF T = {} THEN t ELSE AfterPair(it[T \ {Max(T)}], pairs[Max(T)], index)]

LEMMA AttachingIsFold ==
  ASSUME NEW t, NEW section, NEW index
  PROVE  AttachActionToFSM(t, section, index) =
           (CHOOSE it : PairFold(it, t, section.pairs, index))[DOMAIN section.pairs]
  BY Zenon DEF AttachActionToFSM, FoldLeft, MapThenFoldSet, PairFold, AfterPair

LEMMA AttachSteps ==
  ASSUME NEW t \in TABLE, NEW section \in SECTION, NEW index \in Nat
  PROVE  \E f \in [0 .. Len(section.pairs) -> TABLE] :
           /\ f[0] = t
           /\ \A i \in 1 .. Len(section.pairs) :
                f[i] = AfterPair(f[i - 1], section.pairs[i], index)
           /\ AttachActionToFSM(t, section, index) = f[Len(section.pairs)]
<1>. DEFINE pairs == section.pairs
            n == Len(pairs)
            g == [p \in TABLE \X (1 .. n) |-> AfterPair(p[1], pairs[p[2]], index)]
<1>1. n \in Nat /\ DOMAIN pairs = 1 .. n
  BY DEF SECTION
<1>2. \A u \in TABLE, i \in 1 .. n : AfterPair(u, pairs[i], index) \in TABLE
  BY NamesKnown, Registered DEF AfterPair
<1>3. g \in [TABLE \X (1 .. n) -> TABLE]
  BY <1>2
<1>4. \A u \in TABLE, i \in 1 .. n : g[<<u, i>>] = AfterPair(u, pairs[i], index)
  OBVIOUS
<1>. HIDE DEF g, n, pairs
<1>5. PICK d : Iterates(d, TABLE, t, n, g)
  BY <1>1, <1>3, Iteration
<1>6. PairFold(d, t, pairs, index)
  <2>1. ASSUME NEW T \in SUBSET (1 .. n), T # {}
        PROVE  d[T] = AfterPair(d[T \ {Max(T)}], pairs[Max(T)], index)
    <3>1. Max(T) \in 1 .. n /\ d[T \ {Max(T)}] \in TABLE
      <4>1. Max(T) \in T
        BY <1>1, <2>1, GreatestIn
      <4>2. T \ {Max(T)} \in SUBSET (1 .. n)
        OBVIOUS
      <4>3. QED
        BY <1>5, <4>1, <4>2 DEF Iterates
    <3>2. QED
      BY <1>4, <1>5, <2>1, <3>1 DEF Iterates
  <2>2. d = [T \in SUBSET (1 .. n) |-> d[T]] /\ d[{}] = t
    BY <1>5 DEF Iterates
  <2>3. d = [T \in SUBSET (1 .. n) |->
               IF T = {} THEN t ELSE AfterPair(d[T \ {Max(T)}], pairs[Max(T)], index)]
    BY <2>1, <2>2
  <2>4. QED
    BY <1>1, <2>3, Zenon DEF PairFold
<1>7. PICK c : PairFold(c, t, pairs, index) /\ AttachActionToFSM(t, section, index) = c[1 .. n]
  BY <1>1, <1>6, AttachingIsFold, Zenon DEF pairs
<1>8. Folds(c, TABLE, t, n, g)
  <2>1. c = [T \in SUBSET (1 .. n) |->
               IF T = {} THEN t ELSE AfterPair(c[T \ {Max(T)}], pairs[Max(T)], index)]
    BY <1>1, <1>7, Zenon DEF PairFold
  <2>2. \A T \in SUBSET (1 .. n) :
          c[T] = IF T = {} THEN t ELSE AfterPair(c[T \ {Max(T)}], pairs[Max(T)], index)
    BY <2>1, Zenon
  <2>3. {} \in SUBSET (1 .. n)
    OBVIOUS
  <2>4. \A T \in SUBSET (1 .. n) : T # {} => Max(T) \in 1 .. n
    BY <1>1, GreatestIn
  <2>5. QED
    BY <1>4, <2>2, <2>3, <2>4 DEF Folds
<1>9. PICK f : Walks(f, TABLE, t, n, g, c[1 .. n])
  BY <1>1, <1>3, <1>8, FoldWalk
<1>10. \A i \in 1 .. n : f[i] = AfterPair(f[i - 1], pairs[i], index)
  <2>1. \A i \in 1 .. n : i - 1 \in 0 .. n
    BY <1>1
  <2>2. QED
    BY <1>4, <1>9, <2>1 DEF Walks
<1>11. QED
  BY <1>7, <1>9, <1>10 DEF Walks, n, pairs

(* Registering leaves the actions alone. *)
LEMMA PairsAttached ==
  ASSUME NEW t \in TABLE, NEW section \in SECTION, NEW index \in Nat
  PROVE  /\ AttachActionToFSM(t, section, index) \in TABLE
         /\ AttachActionToFSM(t, section, index).actions = t.actions
<1>. DEFINE n == Len(section.pairs)
<1>1. PICK f \in [0 .. n -> TABLE] :
           /\ f[0] = t
           /\ \A i \in 1 .. n : f[i] = AfterPair(f[i - 1], section.pairs[i], index)
           /\ AttachActionToFSM(t, section, index) = f[n]
  BY AttachSteps
<1>2. n \in Nat
  BY DEF SECTION
<1>. HIDE DEF n
<1>. DEFINE T == {i \in Nat : i <= n => f[i].actions = t.actions}
<1>3. 0 \in T
  BY <1>1
<1>4. ASSUME NEW i \in Nat, i \in T, i + 1 <= n
      PROVE  f[i + 1].actions = t.actions
  <2>1. i + 1 \in 1 .. n /\ (i + 1) - 1 = i /\ f[i] \in TABLE /\ f[i].actions = t.actions
    BY <1>2, <1>4
  <2>2. f[i + 1] = AfterPair(f[i], section.pairs[i + 1], index)
    BY <1>1, <2>1
  <2>3. AfterPair(f[i], section.pairs[i + 1], index).actions = f[i].actions
    BY <2>1, NamesKnown, Registered DEF AfterPair
  <2>4. QED
    BY <2>1, <2>2, <2>3
<1>5. \A i \in Nat : i \in T
  <2>1. \A i \in Nat : i \in T => i + 1 \in T
    <3>1. ASSUME NEW i \in Nat, i \in T PROVE i + 1 \in T
      BY <1>4, <3>1
    <3>2. QED
      BY <3>1
  <2>. HIDE DEF T
  <2>2. QED
    BY <1>3, <2>1, NumbersByInduction
<1>6. QED
  BY <1>1, <1>2, <1>5

-----------------------------------------------------------------------------
(* parseAction names an action and registers it for its key or its pairs.  *)
Named(t, section, handlers) ==
  [t EXCEPT !.actions = Append(@, Action(section.name, handlers))]

LEMMA SectionNamed ==
  ASSUME NEW t \in TABLE, NEW section \in SECTION,
         NEW handlers \in Seq(RUNNABLE) \union {NoHandlers}
  PROVE  /\ Named(t, section, handlers) \in TABLE
         /\ Len(Named(t, section, handlers).actions) = Len(t.actions) + 1
         /\ Named(t, section, handlers).rows = t.rows
         /\ Named(t, section, handlers).dynamic = t.dynamic
         /\ Len(t.actions) \in Nat
<1>1. Action(section.name, handlers) \in ENTRY
  BY DEF Action, ENTRY, NAMES, SECTION
<1>2. QED
  BY <1>1, NameAdded DEF Named

LEMMA SectionCases ==
  ASSUME NEW t, NEW section
  PROVE  ParseAction(t, section) =
           IF section.cmds = << >> THEN Named(t, section, NoHandlers)
           ELSE IF section.key # << >>
                  THEN RegisterKeyAction(Named(t, section, HandlersOf(section)), section.key,
                                         Len(t.actions) + 1)
           ELSE AttachActionToFSM(Named(t, section, HandlersOf(section)), section,
                                  Len(t.actions) + 1)
  BY DEF ParseAction, Named

LEMMA SectionParsed ==
  ASSUME NEW t \in TABLE, NEW section \in SECTION
  PROVE  /\ ParseAction(t, section) \in TABLE
         /\ Len(ParseAction(t, section).actions) = Len(t.actions) + 1
<1>. DEFINE m == Named(t, section, HandlersOf(section))
            index == Len(t.actions) + 1
<1>1. m \in TABLE /\ Len(m.actions) = index /\ index \in Nat
  BY HandlersParsed, SectionNamed
<1>2. Named(t, section, NoHandlers) \in TABLE /\ Len(Named(t, section, NoHandlers).actions) = index
  BY SectionNamed
<1>3. section.key \in Seq(STRING)
  BY DEF SECTION
<1>4. ParseAction(t, section) =
        IF section.cmds = << >> THEN Named(t, section, NoHandlers)
        ELSE IF section.key # << >> THEN RegisterKeyAction(m, section.key, index)
        ELSE AttachActionToFSM(m, section, index)
  BY SectionCases
<1>. HIDE DEF m, index
<1>5. /\ RegisterKeyAction(m, section.key, index) \in TABLE
      /\ RegisterKeyAction(m, section.key, index).actions = m.actions
  BY <1>1, <1>3, KeyRegistered
<1>6. /\ AttachActionToFSM(m, section, index) \in TABLE
      /\ AttachActionToFSM(m, section, index).actions = m.actions
  BY <1>1, PairsAttached
<1>7. QED
  BY <1>1, <1>2, <1>4, <1>5, <1>6 DEF index

(* vt_loadAction, section by section.                                      *)
SectionFold(it, t, sections) ==
  it = [T \in SUBSET DOMAIN sections |->
          IF T = {} THEN t ELSE ParseAction(it[T \ {Max(T)}], sections[Max(T)])]

Emptied(t) == [DestroyActions(t) EXCEPT !.builtIn = FALSE, !.actions = << >>]

LEMMA LoadingIsFold ==
  ASSUME NEW t, NEW f, Files[f].loads
  PROVE  LoadAction(t, Files[f]) =
           (CHOOSE it : SectionFold(it, Emptied(t), Sections(f)))[DOMAIN Sections(f)]
  BY Zenon DEF LoadAction, FoldLeft, MapThenFoldSet, SectionFold, Emptied, Sections

LEMMA TableEmptied ==
  ASSUME NEW t \in TABLE
  PROVE  Emptied(t) \in TABLE /\ Emptied(t).actions = << >>
<1>1. PICK d : d = DestroyActions(t)
  OBVIOUS
<1>2. d \in TABLE
  BY <1>1, TableDestroyed
<1>3. PICK a : a = [d EXCEPT !.builtIn = FALSE]
  OBVIOUS
<1>4. a \in TABLE
  BY <1>2, <1>3 DEF TABLE
<1>5. Emptied(t) = [a EXCEPT !.actions = << >>]
  BY <1>1, <1>3 DEF Emptied
<1>6. << >> \in Seq(ENTRY)
  OBVIOUS
<1>7. [a EXCEPT !.actions = << >>] \in TABLE /\ [a EXCEPT !.actions = << >>].actions = << >>
  BY <1>4, <1>6 DEF TABLE
<1>8. QED
  BY <1>5, <1>7, Zenon

LEMMA LoadSteps ==
  ASSUME NEW t \in TABLE, NEW f \in DOMAIN Files, Files[f].loads
  PROVE  \E w \in [0 .. Len(Sections(f)) -> TABLE] :
           /\ w[0] = Emptied(t)
           /\ \A i \in 1 .. Len(Sections(f)) : w[i] = ParseAction(w[i - 1], Sections(f)[i])
           /\ LoadAction(t, Files[f]) = w[Len(Sections(f))]
<1>. DEFINE sections == Sections(f)
            n == Len(sections)
            b == Emptied(t)
            g == [p \in TABLE \X (1 .. n) |-> ParseAction(p[1], sections[p[2]])]
<1>1. /\ n \in Nat /\ DOMAIN sections = 1 .. n /\ b \in TABLE
      /\ \A i \in 1 .. n : sections[i] \in SECTION
  <2>1. sections \in Seq(SECTION)
    BY FilesAssumption DEF Sections
  <2>. HIDE DEF sections
  <2>2. QED
    BY <2>1, TableEmptied
<1>. HIDE DEF sections, n, b
<1>2. \A u \in TABLE, i \in 1 .. n : ParseAction(u, sections[i]) \in TABLE
  BY <1>1, SectionParsed
<1>3. g \in [TABLE \X (1 .. n) -> TABLE]
  BY <1>2
<1>4. \A u \in TABLE, i \in 1 .. n : g[<<u, i>>] = ParseAction(u, sections[i])
  OBVIOUS
<1>. HIDE DEF g
<1>5. PICK d : Iterates(d, TABLE, b, n, g)
  BY <1>1, <1>3, Iteration
<1>6. SectionFold(d, b, sections)
  <2>1. ASSUME NEW T \in SUBSET (1 .. n), T # {}
        PROVE  d[T] = ParseAction(d[T \ {Max(T)}], sections[Max(T)])
    <3>1. Max(T) \in 1 .. n /\ d[T \ {Max(T)}] \in TABLE
      <4>1. Max(T) \in T
        BY <1>1, <2>1, GreatestIn
      <4>2. T \ {Max(T)} \in SUBSET (1 .. n)
        OBVIOUS
      <4>3. QED
        BY <1>5, <4>1, <4>2 DEF Iterates
    <3>2. QED
      BY <1>4, <1>5, <2>1, <3>1 DEF Iterates
  <2>2. d = [T \in SUBSET (1 .. n) |-> d[T]] /\ d[{}] = b
    BY <1>5 DEF Iterates
  <2>3. d = [T \in SUBSET (1 .. n) |->
               IF T = {} THEN b ELSE ParseAction(d[T \ {Max(T)}], sections[Max(T)])]
    BY <2>1, <2>2
  <2>4. QED
    BY <1>1, <2>3, Zenon DEF SectionFold
<1>7. PICK c : SectionFold(c, b, sections) /\ LoadAction(t, Files[f]) = c[1 .. n]
  BY <1>1, <1>6, LoadingIsFold, Zenon DEF sections, b
<1>8. Folds(c, TABLE, b, n, g)
  <2>1. c = [T \in SUBSET (1 .. n) |->
               IF T = {} THEN b ELSE ParseAction(c[T \ {Max(T)}], sections[Max(T)])]
    BY <1>1, <1>7, Zenon DEF SectionFold
  <2>2. \A T \in SUBSET (1 .. n) :
          c[T] = IF T = {} THEN b ELSE ParseAction(c[T \ {Max(T)}], sections[Max(T)])
    BY <2>1, Zenon
  <2>3. {} \in SUBSET (1 .. n)
    OBVIOUS
  <2>4. \A T \in SUBSET (1 .. n) : T # {} => Max(T) \in 1 .. n
    BY <1>1, GreatestIn
  <2>5. QED
    BY <1>4, <2>2, <2>3, <2>4 DEF Folds
<1>9. PICK w : Walks(w, TABLE, b, n, g, c[1 .. n])
  BY <1>1, <1>3, <1>8, FoldWalk
<1>10. \A i \in 1 .. n : w[i] = ParseAction(w[i - 1], sections[i])
  <2>1. \A i \in 1 .. n : i - 1 \in 0 .. n
    BY <1>1
  <2>2. QED
    BY <1>4, <1>9, <2>1 DEF Walks
<1>11. QED
  BY <1>7, <1>9, <1>10 DEF Walks, n, b, sections

LEMMA TableLoaded ==
  ASSUME NEW t \in TABLE, NEW f \in DOMAIN Files
  PROVE  LoadAction(t, Files[f]) \in TABLE
<1>1. CASE Files[f].loads
  <2>1. PICK w \in [0 .. Len(Sections(f)) -> TABLE] :
          LoadAction(t, Files[f]) = w[Len(Sections(f))]
    BY <1>1, LoadSteps
  <2>2. Len(Sections(f)) \in Nat
    BY FilesAssumption DEF Sections
  <2>3. QED
    BY <2>1, <2>2
<1>2. CASE ~ Files[f].loads
  <2>1. PICK d : d = DestroyActions(t)
    OBVIOUS
  <2>2. d \in TABLE
    BY <2>1, TableDestroyed
  <2>3. PICK a : a = [d EXCEPT !.builtIn = TRUE]
    OBVIOUS
  <2>4. a \in TABLE
    BY <2>2, <2>3 DEF TABLE
  <2>5. LoadAction(t, Files[f]) = [a EXCEPT !.actions = AllActionsDef]
    BY <1>2, <2>1, <2>3 DEF LoadAction
  <2>6. [a EXCEPT !.actions = AllActionsDef] \in TABLE
    BY <2>4, BuiltInActions DEF TABLE
  <2>7. QED
    BY <2>5, <2>6
<1>3. QED
  BY <1>1, <1>2

LEMMA FirstTable == InitialTable \in TABLE
<1>1. \A r \in Rows : FsmCtxs[r].index \in Nat
  <2>1. Rows = 1 .. 19
    BY DEF Rows, FsmCtxs
  <2>2. \A r \in 1 .. 19 : FsmCtxs[r].index \in Nat
    BY DEF FsmCtxs, Row, ACCEPT_CALL, BE_CALLED, BE_ON_HOOK, CALLING, CALLING_FAILED, MISS_CALL,
           OFF_HOOK, ON_HOOK, TALKING
  <2>3. QED
    BY <2>1, <2>2
<1>2. [r \in Rows |-> FsmCtxs[r].index] \in [Rows -> Nat]
  BY <1>1
<1>3. QED
  BY <1>2 DEF InitialTable, TABLE

-----------------------------------------------------------------------------
(* What an event weighs: a hook flash begets two, a digit the timer, whose *)
(* event is yet to come.                                                   *)
EVENT == [type : Events, key : Places \union {"none"}]
Flashes(q) == {i \in DOMAIN q : q[i].type = "HOOK_FLASH"}
Weight(q, timer) == Len(q) + Cardinality(Flashes(q)) + (IF timer THEN 1 ELSE 0)
Worth(type) == IF type = "HOOK_FLASH" THEN 2 ELSE 1

LEMMA FlashesCount ==
  ASSUME NEW q \in Seq(EVENT)
  PROVE  /\ IsFiniteSet(Flashes(q)) /\ Cardinality(Flashes(q)) \in Nat
         /\ Cardinality(Flashes(q)) <= Len(q) /\ Len(q) \in Nat
<1>1. Flashes(q) \in SUBSET (1 .. Len(q)) /\ Len(q) \in Nat
  BY DEF Flashes
<1>2. IsFiniteSet(1 .. Len(q)) /\ Cardinality(1 .. Len(q)) = Len(q)
  <2>1. ASSUME NEW n \in Nat PROVE IsFiniteSet(1 .. n) /\ Cardinality(1 .. n) = n
    BY FS_Interval
  <2>2. QED
    BY <1>1, <2>1
<1>3. IsFiniteSet(Flashes(q)) /\ Cardinality(Flashes(q)) <= Cardinality(1 .. Len(q))
  BY <1>1, <1>2, FS_Subset
<1>4. Cardinality(Flashes(q)) \in Nat
  BY <1>3, FS_CardinalityType
<1>5. QED
  BY <1>1, <1>2, <1>3, <1>4

LEMMA PutWeighs ==
  ASSUME NEW q \in Seq(EVENT), NEW e \in EVENT, NEW timer \in BOOLEAN, e.type # "HOOK_FLASH"
  PROVE  /\ Append(q, e) \in Seq(EVENT)
         /\ Weight(Append(q, e), timer) = Weight(q, timer) + 1
<1>1. /\ Append(q, e) \in Seq(EVENT) /\ Len(Append(q, e)) = Len(q) + 1 /\ Len(q) \in Nat
      /\ \A i \in 1 .. Len(q) : Append(q, e)[i] = q[i]
      /\ Append(q, e)[Len(q) + 1] = e
  BY AppendProperties
<1>2. Flashes(Append(q, e)) = Flashes(q)
  <2>1. DOMAIN Append(q, e) = 1 .. Len(q) + 1 /\ DOMAIN q = 1 .. Len(q)
    BY <1>1
  <2>2. QED
    BY <1>1, <2>1 DEF Flashes
<1>3. QED
  BY <1>1, <1>2, FlashesCount DEF Weight

LEMMA TailWeighs ==
  ASSUME NEW q \in Seq(EVENT), q # << >>, NEW timer \in BOOLEAN
  PROVE  /\ Tail(q) \in Seq(EVENT) /\ Head(q) \in EVENT
         /\ Weight(Tail(q), timer) + Worth(Head(q).type) <= Weight(q, timer)
<1>. DEFINE r == Tail(q)
            n == Len(q)
            S == Flashes(r)
            T == Flashes(q) \ {1}
            f == [i \in S |-> i + 1]
<1>1. /\ r \in Seq(EVENT) /\ Len(r) = n - 1 /\ n \in Nat \ {0}
      /\ \A i \in 1 .. n - 1 : r[i] = q[i + 1]
      /\ Head(q) = q[1] /\ Head(q) \in EVENT
  BY HeadTailProperties, EmptySeq
<1>2. S = {i \in 1 .. n - 1 : q[i + 1].type = "HOOK_FLASH"}
  <2>1. DOMAIN r = 1 .. n - 1
    BY <1>1
  <2>. HIDE DEF r, n
  <2>2. QED
    BY <1>1, <2>1 DEF Flashes
<1>3. Flashes(q) = {i \in 1 .. n : q[i].type = "HOOK_FLASH"}
  BY DEF Flashes
<1>4. IsFiniteSet(T) /\ Cardinality(T) = Cardinality(Flashes(q)) - (Worth(Head(q).type) - 1)
  <2>1. 1 \in Flashes(q) <=> Head(q).type = "HOOK_FLASH"
    BY <1>1, <1>3
  <2>2. QED
    BY <2>1, FlashesCount, FS_RemoveElement DEF Worth
<1>. HIDE DEF S, n
<1>5. \A i \in S : i + 1 \in T
  <2>1. ASSUME NEW i \in S PROVE i + 1 \in T
    <3>1. i \in 1 .. n - 1 /\ q[i + 1].type = "HOOK_FLASH"
      BY <1>2
    <3>2. i + 1 \in 1 .. n /\ i + 1 # 1
      BY <1>1, <3>1
    <3>3. QED
      BY <1>3, <3>1, <3>2
  <2>2. QED
    BY <2>1
<1>. HIDE DEF T
<1>6. f \in Injection(S, T)
  <2>1. f \in [S -> T]
    BY <1>5
  <2>2. \A a, b \in S : f[a] = f[b] => a = b
    BY <1>2
  <2>3. DOMAIN f = S
    OBVIOUS
  <2>. HIDE DEF f
  <2>4. QED
    BY <2>1, <2>2, <2>3 DEF Injection, IsInjective
<1>. HIDE DEF f
<1>7. Cardinality(S) <= Cardinality(T)
  BY <1>4, <1>6, FS_Injection
<1>8. /\ Cardinality(Flashes(q)) \in Nat /\ Cardinality(Flashes(r)) \in Nat
      /\ Worth(Head(q).type) \in {1, 2}
  BY <1>1, FlashesCount DEF Worth
<1>9. Len(r) + Cardinality(Flashes(r)) + Worth(Head(q).type) <= n + Cardinality(Flashes(q))
  BY <1>1, <1>4, <1>7, <1>8 DEF S
<1>10. QED
  BY <1>1, <1>8, <1>9 DEF Weight, n

(* What comes from outside is limited where it comes in.                   *)
LEMMA FewEvents ==
  ASSUME NEW q \in Seq(EVENT), Len(q) <= MaxQueue, NEW timer \in BOOLEAN
  PROVE  Weight(q, timer) <= 2 * MaxQueue + 1
  BY FlashesCount, PhoneAssumption DEF Weight

-----------------------------------------------------------------------------
(* What handlers do to the rest of the machine: the link and the queue     *)
(* keep their shapes, the state stays what it was, and the events weigh at *)
(* most k more.                                                            *)
Sound(m) == m.link \in LINK /\ m.queue \in Seq(EVENT) /\ m.phone.timer \in BOOLEAN
Effects(m, n, k) ==
  /\ Sound(n) /\ n.phone.fxsState = m.phone.fxsState
  /\ Weight(n.queue, n.phone.timer) <= Weight(m.queue, m.phone.timer) + k

LEMMA WeightIsNumber ==
  ASSUME NEW q \in Seq(EVENT), NEW timer \in BOOLEAN
  PROVE  Weight(q, timer) \in Nat
  BY FlashesCount DEF Weight

(* What puts no event and leaves the phone alone.                          *)
LEMMA NothingPut ==
  ASSUME NEW m, Sound(m), NEW n, n.queue = m.queue, n.phone = m.phone, n.link \in LINK
  PROVE  Effects(m, n, 0) /\ Effects(m, n, 1)
  BY WeightIsNumber DEF Sound, Effects

LEMMA ResultOnly ==
  ASSUME NEW m, IsMachine(m), NEW b
  PROVE  /\ [m EXCEPT !.ok = b].queue = m.queue /\ [m EXCEPT !.ok = b].phone = m.phone
         /\ [m EXCEPT !.ok = b].link = m.link
  BY DEF IsMachine

LEMMA LinkOnly ==
  ASSUME NEW m, IsMachine(m), NEW l
  PROVE  /\ [m EXCEPT !.link = l].queue = m.queue /\ [m EXCEPT !.link = l].phone = m.phone
         /\ [m EXCEPT !.link = l].link = l
  BY DEF IsMachine

LEMMA EventPut ==
  ASSUME NEW m, IsMachine(m), Sound(m), NEW type \in Events, type # "HOOK_FLASH"
  PROVE  LET n == PutEvent(m, type)
         IN Effects(m, n, 1) /\ n.link = m.link /\ n.phone = m.phone /\ IsMachine(n)
<1>. DEFINE n == PutEvent(m, type)
<1>1. /\ n.queue = Append(m.queue, Event(type)) /\ n.link = m.link /\ n.phone = m.phone
      /\ IsMachine(n)
  BY DEF PutEvent, IsMachine
<1>2. Event(type) \in EVENT /\ Event(type).type # "HOOK_FLASH"
  BY DEF Event, EVENT, Places
<1>. HIDE DEF n
<1>3. /\ n.queue \in Seq(EVENT)
      /\ Weight(n.queue, m.phone.timer) = Weight(m.queue, m.phone.timer) + 1
  BY <1>1, <1>2, PutWeighs DEF Sound
<1>4. Weight(m.queue, m.phone.timer) \in Nat
  BY WeightIsNumber DEF Sound
<1>5. QED
  BY <1>1, <1>3, <1>4 DEF Sound, Effects, n

LEMMA ResultEffects ==
  ASSUME NEW m, IsMachine(m), Sound(m), NEW x
  PROVE  /\ Effects(m, Done(m), 0) /\ Effects(m, Undone(m), 0) /\ Effects(m, SendCallMsg(m, x), 0)
         /\ Done(m).link = m.link /\ Undone(m).link = m.link /\ SendCallMsg(m, x).link = m.link
<1>1. ASSUME NEW b PROVE Effects(m, [m EXCEPT !.ok = b], 0) /\ [m EXCEPT !.ok = b].link = m.link
  BY ResultOnly, NothingPut DEF Sound
<1>2. QED
  BY <1>1, Zenon DEF Done, Undone, SendCallMsg

LEMMA TalkEnded ==
  ASSUME NEW m, IsMachine(m), Sound(m), NEW x
  PROVE  Effects(m, HookOnTalking(m, x), 0)
<1>. DEFINE k == [m EXCEPT !.link = vt_sendRtpDeactive(@, endpt)]
<1>1. vt_sendRtpDeactive(m.link, endpt) \in LINK
  <2>1. endpt \in Int
    BY PhoneAssumption DEF Endpts
  <2>2. QED
    BY <2>1, RtpStopped DEF Sound
<1>2. k = [m EXCEPT !.link = vt_sendRtpDeactive(m.link, endpt)]
  BY DEF IsMachine
<1>3. k.link \in LINK /\ k.queue = m.queue /\ k.phone = m.phone /\ IsMachine(k)
  <2>. HIDE DEF k
  <2>1. IsMachine(k)
    BY <1>2, SmallSteps DEF Untouched
  <2>2. QED
    BY <1>1, <1>2, <2>1, LinkOnly
<1>. HIDE DEF k
<1>4. Sound(k) /\ k.phone = m.phone /\ k.queue = m.queue
  BY <1>3 DEF Sound
<1>5. Effects(k, SendCallMsg(k, x), 0)
  BY <1>3, <1>4, ResultEffects
<1>6. HookOnTalking(m, x) = SendCallMsg(k, x)
  BY DEF HookOnTalking, k
<1>7. QED
  BY <1>4, <1>5, <1>6 DEF Effects

LEMMA FlashPuts ==
  ASSUME NEW m, IsMachine(m), Sound(m)
  PROVE  Effects(m, HookFlashAny(m), 2)
<1>. DEFINE a == PutEvent(m, "HOOK_ON")
            b == PutEvent(a, "HOOK_OFF")
<1>1. "HOOK_ON" \in Events /\ "HOOK_OFF" \in Events
  BY DEF Events
<1>2. Effects(m, a, 1) /\ IsMachine(a)
  BY <1>1, EventPut
<1>. HIDE DEF a
<1>3. Effects(a, b, 1) /\ IsMachine(b)
  BY <1>1, <1>2, EventPut DEF Effects
<1>4. HookFlashAny(m) = Done(b)
  BY DEF HookFlashAny, a
<1>. HIDE DEF b
<1>5. Effects(b, Done(b), 0)
  BY <1>3, ResultEffects DEF Effects
<1>6. /\ Weight(m.queue, m.phone.timer) \in Nat /\ Weight(a.queue, a.phone.timer) \in Nat
      /\ Weight(b.queue, b.phone.timer) \in Nat
      /\ Weight(Done(b).queue, Done(b).phone.timer) \in Nat
  BY <1>2, <1>3, <1>5, WeightIsNumber DEF Sound, Effects
<1>7. QED
  BY <1>2, <1>3, <1>4, <1>5, <1>6 DEF Effects

LEMMA DialEffects ==
  ASSUME NEW m, GoodMachine(m), Sound(m)
  PROVE  Effects(m, DfmtStartHookOff(m), 0)
<1>. DEFINE p == [m.phone EXCEPT !.numberIndex = 0]
            l == vt_sendTonePlay(m.link, endpt)
            k == [m EXCEPT !.phone.numberIndex = 0, !.link = vt_sendTonePlay(@, endpt),
                           !.typed = << >>]
<1>1. l \in LINK
  <2>1. endpt \in Int
    BY PhoneAssumption DEF Endpts
  <2>2. QED
    BY <2>1, ForEndptSent DEF Sound
<1>2. p.timer = m.phone.timer /\ p.fxsState = m.phone.fxsState
  BY DEF GoodMachine, Good, PHONE
<1>3. k.phone = p /\ k.queue = m.queue /\ k.link = l /\ IsMachine(k)
  <2>1. PICK h, q, s, u, c, o : m = [phone |-> h, queue |-> q, link |-> s, typed |-> u,
                                     called |-> c, ok |-> o]
    BY DEF GoodMachine, IsMachine
  <2>2. k = [[[m EXCEPT !.phone = p] EXCEPT !.link = vt_sendTonePlay(@, endpt)]
               EXCEPT !.typed = << >>]
    OBVIOUS
  <2>. HIDE DEF k, p
  <2>3. k = [phone |-> p, queue |-> q, link |-> vt_sendTonePlay(s, endpt), typed |-> << >>,
             called |-> c, ok |-> o]
    BY <2>1, <2>2
  <2>4. QED
    BY <2>1, <2>3 DEF IsMachine
<1>. HIDE DEF k, p, l
<1>4. /\ Sound(k) /\ k.phone.fxsState = m.phone.fxsState
      /\ Weight(k.queue, k.phone.timer) = Weight(m.queue, m.phone.timer)
  BY <1>1, <1>2, <1>3 DEF Sound
<1>5. Effects(k, Done(k), 0)
  BY <1>3, <1>4, ResultEffects
<1>6. DfmtStartHookOff(m) = Done(k)
  BY DEF DfmtStartHookOff, k
<1>7. QED
  BY <1>4, <1>5, <1>6 DEF Effects

LEMMA DigitEffects ==
  ASSUME NEW m, GoodMachine(m), Sound(m), NEW key
  PROVE  Effects(m, DfmtEndDtmfStart(m, key), 1)
<1>. DEFINE i == m.phone.numberIndex + 1
            p == [m.phone EXCEPT !.numberIndex = i, !.timer = TRUE,
                                 !.number[i] = IF key \in DtmfDigits THEN key ELSE @]
            n == DfmtEndDtmfStart(m, key)
<1>1. CASE i > VT_INPUT_NUM_MAX
  <2>1. n = Undone(m)
    BY <1>1 DEF DfmtEndDtmfStart
  <2>2. Effects(m, Undone(m), 0)
    BY ResultEffects DEF GoodMachine
  <2>3. Weight(m.queue, m.phone.timer) \in Nat /\ Weight(n.queue, n.phone.timer) \in Nat
    BY <2>1, <2>2, WeightIsNumber DEF Effects, Sound
  <2>4. QED
    BY <2>1, <2>2, <2>3 DEF Effects
<1>2. CASE ~ (i > VT_INPUT_NUM_MAX)
  <2>1. n.phone = p /\ n.queue = m.queue /\ n.link = m.link
    BY <1>2 DEF DfmtEndDtmfStart, Done, GoodMachine, IsMachine
  <2>2. p.timer = TRUE /\ p.fxsState = m.phone.fxsState
    BY DEF GoodMachine, Good, PHONE
  <2>. HIDE DEF p, n
  <2>3. Weight(m.queue, TRUE) <= Weight(m.queue, m.phone.timer) + 1
    BY FlashesCount DEF Weight, Sound
  <2>4. n.phone.timer = TRUE /\ n.phone.fxsState = m.phone.fxsState
    BY <2>1, <2>2
  <2>5. QED
    BY <2>1, <2>3, <2>4 DEF Sound, Effects, n
<1>3. QED
  BY <1>1, <1>2

(* A key's action runs in any table.                                       *)
LEMMA KeyEffects ==
  ASSUME NEW m, IsMachine(m), Sound(m), NEW string, NEW x, table \in TABLE,
         x.junk \in Seq(ARGUMENT)
  PROVE  Effects(m, RunKeyAction(m, string, x), 0)
<1>. DEFINE found == MatchingKey({string}, x.stale)
            k == CHOOSE k \in found : TRUE
            index == table.keys[k].index
            ran == RunAction(table, index, m.link, <<Number(endpt)>>, x.junk)
<1>1. CASE found = {}
  <2>1. RunKeyAction(m, string, x) = Undone(m)
    BY <1>1 DEF RunKeyAction
  <2>2. QED
    BY <2>1, ResultEffects
<1>2. CASE found # {}
  <2>. DEFINE T == {j \in DOMAIN table.keys :
                      IF table.keys[j].stale THEN j \in x.stale ELSE table.keys[j].key \in {string}}
  <2>1. k \in DOMAIN table.keys
    <3>1. found = FirstOf(T)
      BY DEF MatchingKey
    <3>2. T \subseteq DOMAIN table.keys /\ DOMAIN table.keys \subseteq Nat
      BY DEF TABLE
    <3>3. k \in found
      BY <1>2
    <3>. HIDE DEF T, k, found
    <3>4. T # {} /\ k = CHOOSE q \in T : \A j \in T : q <= j
      BY <3>1, <3>3 DEF FirstOf
    <3>5. k \in T
      BY <3>2, <3>4, LeastNumber
    <3>6. QED
      BY <3>2, <3>5
  <2>2. index \in Nat
    <3>1. table.keys \in Seq(KEYROW)
      BY DEF TABLE
    <3>. HIDE DEF k
    <3>2. table.keys[k] \in KEYROW
      BY <2>1, <3>1
    <3>3. QED
      BY <3>2 DEF KEYROW
  <2>. HIDE DEF index
  <2>3. ran \in LINK
    <3>1. endpt \in Int
      BY PhoneAssumption DEF Endpts
    <3>2. <<Number(endpt)>> \in Seq(ARGUMENT)
      BY <3>1, WordsAreWords, OneElement
    <3>3. QED
      BY <2>2, <3>2, ActionRuns DEF Sound
  <2>4. RunKeyAction(m, string, x) = [[m EXCEPT !.link = ran] EXCEPT !.ok = ~ Failed(ran)]
    BY <1>2 DEF RunKeyAction, index
  <2>. HIDE DEF ran
  <2>. DEFINE a == [m EXCEPT !.link = ran]
  <2>5. a.queue = m.queue /\ a.phone = m.phone /\ a.link = ran /\ IsMachine(a)
    BY LinkOnly, SmallSteps DEF Untouched
  <2>. HIDE DEF a
  <2>6. ASSUME NEW b
        PROVE  Effects(m, [a EXCEPT !.ok = b], 0)
    <3>. PICK c : c = [a EXCEPT !.ok = b]
      OBVIOUS
    <3>1. c.queue = m.queue /\ c.phone = m.phone /\ c.link \in LINK
      BY <2>3, <2>5, ResultOnly
    <3>2. QED
      BY <3>1, NothingPut
  <2>7. Effects(m, [a EXCEPT !.ok = ~ Failed(ran)], 0)
    BY <2>6, Zenon
  <2>8. QED
    BY <2>4, <2>7, Zenon DEF a
<1>3. QED
  BY <1>1, <1>2

LEMMA CallEffects ==
  ASSUME NEW m, GoodMachine(m), Sound(m), NEW string, NEW x
  PROVE  Effects(m, CallNumber(m, string, x), 1)
<1>. DEFINE k == [m EXCEPT !.called.number = Value(string), !.called.typed = m.typed]
<1>1. IsMachine(k) /\ k.queue = m.queue /\ k.phone = m.phone /\ k.link = m.link
  <2>1. PICK p, q, l, t, u, v, w, o :
            m = [phone |-> p, queue |-> q, link |-> l, typed |-> t,
                 called |-> [number |-> u, typed |-> v, longest |-> w], ok |-> o]
    BY DEF GoodMachine, IsMachine, Good, IsRecord
  <2>2. PICK y : y = Value(string)
    OBVIOUS
  <2>3. k = [[m EXCEPT !.called.number = y] EXCEPT !.called.typed = t]
    BY <2>1, <2>2
  <2>. HIDE DEF k
  <2>4. k = [phone |-> p, queue |-> q, link |-> l, typed |-> t,
             called |-> [number |-> y, typed |-> t, longest |-> w], ok |-> o]
    BY <2>1, <2>3
  <2>5. QED
    BY <2>1, <2>4 DEF IsMachine
<1>2. "NUM_CALLED" \in Events /\ "NUM_ERR" \in Events
  BY DEF Events
<1>. HIDE DEF k
<1>3. Sound(k)
  BY <1>1 DEF Sound
<1>4. ASSUME NEW a, IsMachine(a), Sound(a), NEW type \in Events, type # "HOOK_FLASH"
      PROVE  Effects(a, Done(PutEvent(a, type)), 1) /\ Effects(a, Undone(PutEvent(a, type)), 1)
  <2>. DEFINE b == PutEvent(a, type)
  <2>1. Effects(a, b, 1) /\ IsMachine(b)
    BY <1>4, EventPut
  <2>. HIDE DEF b
  <2>2. Effects(b, Done(b), 0) /\ Effects(b, Undone(b), 0)
    BY <2>1, ResultEffects DEF Effects
  <2>3. /\ Weight(a.queue, a.phone.timer) \in Nat /\ Weight(b.queue, b.phone.timer) \in Nat
        /\ Weight(Done(b).queue, Done(b).phone.timer) \in Nat
        /\ Weight(Undone(b).queue, Undone(b).phone.timer) \in Nat
    BY <1>4, <2>1, <2>2, WeightIsNumber DEF Sound, Effects
  <2>4. Effects(a, Done(b), 1)
    BY <2>1, <2>2, <2>3 DEF Effects
  <2>5. Effects(a, Undone(b), 1)
    BY <2>1, <2>2, <2>3 DEF Effects
  <2>6. QED
    BY <2>4, <2>5 DEF b
<1>5. Effects(m, Done(PutEvent(k, "NUM_CALLED")), 1)
  <2>1. Effects(k, Done(PutEvent(k, "NUM_CALLED")), 1)
    BY <1>1, <1>2, <1>3, <1>4
  <2>2. QED
    BY <1>1, <2>1 DEF Effects
<1>6. Effects(m, Undone(PutEvent(m, "NUM_ERR")), 1)
  BY <1>2, <1>4 DEF GoodMachine
<1>7. CallNumber(m, string, x) =
        IF x.session THEN Done(PutEvent(k, "NUM_CALLED")) ELSE Undone(PutEvent(m, "NUM_ERR"))
  BY DEF CallNumber, k
<1>8. QED
  BY <1>5, <1>6, <1>7

LEMMA CloseEffects ==
  ASSUME NEW m, IsMachine(m), Sound(m), NEW x
  PROVE  Effects(m, CloseFd(m, x), 0)
<1>. DEFINE l == [m.link EXCEPT !.sock = "dead"]
            k == [m EXCEPT !.link.sock = "dead"]
<1>1. l \in LINK
  BY LinkUpdates DEF Sound
<1>2. k = [m EXCEPT !.link = l]
  OBVIOUS
<1>. HIDE DEF k, l
<1>3. IsMachine(k) /\ k.queue = m.queue /\ k.phone = m.phone /\ k.link = l
  BY <1>2, LinkOnly, SmallSteps DEF Untouched
<1>4. Sound(k)
  BY <1>1, <1>3 DEF Sound
<1>5. Effects(k, Done(k), 0)
  BY <1>3, <1>4, ResultEffects
<1>6. Effects(m, Done(k), 0)
  BY <1>3, <1>5 DEF Effects
<1>7. CloseFd(m, x) = IF x.misread /\ m.link.sock = "open" THEN Done(k) ELSE Done(m)
  BY DEF CloseFd, k
<1>8. QED
  BY <1>6, <1>7, ResultEffects

-----------------------------------------------------------------------------
(* The first of some rows is one of them, and none is before it.           *)
LEMMA FirstIn ==
  ASSUME NEW T, T \subseteq Nat, NEW r \in FirstOf(T)
  PROVE  r \in T /\ \A q \in T : r <= q
<1>1. T # {} /\ r = CHOOSE q \in T : \A k \in T : q <= k
  BY DEF FirstOf
<1>2. \E q \in T : \A k \in T : q <= k
  BY <1>1, LeastNumber
<1>3. QED
  BY <1>1, <1>2, Zenon

Gain(name) ==
  IF name = "hookFlashAny" THEN 2
  ELSE IF name \in {"dfmtEndDtmfStart", "numDoneDtmfStart"} THEN 1 ELSE 0

LEMMA HandlerEffects ==
  ASSUME NEW m, GoodMachine(m), Sound(m), NEW name \in Handlers, NEW event, NEW x,
         table \in TABLE, x.junk \in Seq(ARGUMENT)
  PROVE  /\ Effects(m, EventHandler(name, m, event, x), Gain(name))
         /\ name \in {"dummy", "hookOffBeCalled"} => EventHandler(name, m, event, x).link = m.link
<1>0. IsMachine(m)
  BY DEF GoodMachine
<1>1. CASE name \in {"dummy", "hookFlashTalking", "numErrDtmfStart", "beCalledHookOn"}
  BY <1>0, <1>1, ResultEffects DEF EventHandler, Gain
<1>2. CASE name \in {"hookOnCalling", "hookOffBeCalled", "rejectCall"}
  BY <1>0, <1>2, ResultEffects DEF EventHandler, Gain
<1>3. CASE name = "hookOnTalking"
  BY <1>0, <1>3, TalkEnded DEF EventHandler, Gain
<1>4. CASE name = "hookFlashAny"
  BY <1>0, <1>4, FlashPuts DEF EventHandler, Gain
<1>5. CASE name = "dfmtStartHookOff"
  BY <1>5, DialEffects DEF EventHandler, Gain
<1>6. CASE name = "dfmtEndDtmfStart"
  BY <1>6, DigitEffects DEF EventHandler, Gain
<1>7. CASE name = "numDoneDtmfStart"
  <2>1. EventHandler(name, m, event, x) = NumDoneDtmfStart(m, x) /\ Gain(name) = 1
    BY <1>7 DEF EventHandler, Gain
  <2>2. Effects(m, RunKeyAction(m, Spelled(m.phone), x), 1)
    <3>1. PICK n : n = RunKeyAction(m, Spelled(m.phone), x)
      OBVIOUS
    <3>2. Effects(m, n, 0)
      BY <1>0, <3>1, KeyEffects
    <3>3. Weight(n.queue, n.phone.timer) \in Nat /\ Weight(m.queue, m.phone.timer) \in Nat
      BY <3>2, WeightIsNumber DEF Effects, Sound
    <3>4. QED
      BY <3>1, <3>2, <3>3 DEF Effects
  <2>3. Effects(m, CallNumber(m, Spelled(m.phone), x), 1)
    BY CallEffects
  <2>4. QED
    BY <1>7, <2>1, <2>2, <2>3 DEF NumDoneDtmfStart
<1>8. CASE name = "closeFd"
  BY <1>0, <1>8, CloseEffects DEF EventHandler, Gain
<1>9. QED
  BY <1>1, <1>2, <1>3, <1>4, <1>5, <1>6, <1>7, <1>8 DEF Handlers

(* fsmGo: the state changes to that of the row, and only when the action   *)
(* has succeeded.                                                          *)
Moves(m, n, row, l) ==
  /\ row.new # "MAX" /\ n.phone.fxsState = row.new
  /\ ~ l.beyond /\ ~ Failed(l)
  /\ row.handler \in {"dummy", "hookOffBeCalled"} => n.link = l

(* A command that leaves the link in its shape, if one is carried out: the *)
(* machine gets nothing but perhaps an empty queue.                        *)
Behaves(by) == by = Alone \/ \A s \in LINK : Obey(s, by) \in LINK

LEMMA MeanwhileEffects ==
  ASSUME NEW m, GoodMachine(m), Sound(m), NEW by, Behaves(by),
         NEW place \in {"row", "handler", "state"}
  PROVE  /\ GoodMachine(Meanwhile(m, by, place)) /\ Effects(m, Meanwhile(m, by, place), 0)
         /\ by = Alone => Meanwhile(m, by, place) = m
<1>. DEFINE n == Meanwhile(m, by, place)
            l == [Obey(m.link, by) EXCEPT !.result = m.link.result]
<1>1. GoodMachine(n) /\ n.phone = m.phone
  BY MeanwhileKeeps
<1>2. by = Alone => n = m
  BY Uninterrupted
<1>3. CASE n = m
  <2>1. Effects(m, m, 0)
    BY NothingPut DEF Sound
  <2>2. QED
    BY <1>1, <1>2, <1>3, <2>1
<1>4. CASE n # m
  <2>1. n.link = l /\ (n.queue = << >> \/ n.queue = m.queue)
    BY <1>4 DEF Meanwhile, GoodMachine, IsMachine
  <2>2. l \in LINK
    <3>1. Obey(m.link, by) \in LINK /\ m.link.result \in {"OK", "FAILED", "INVAIL_ARG"}
      BY <1>2, <1>4 DEF Behaves, Sound, LINK
    <3>2. QED
      BY <3>1, LinkUpdates
  <2>. HIDE DEF n, l
  <2>3. << >> \in Seq(EVENT) /\ Weight(<< >>, m.phone.timer) <= Weight(m.queue, m.phone.timer)
    <3>1. << >> \in Seq(EVENT)
      OBVIOUS
    <3>2. PICK e : e = << >>
      OBVIOUS
    <3>3. e \in Seq(EVENT) /\ Len(e) = 0
      BY <3>1, <3>2
    <3>4. Weight(e, m.phone.timer) <= Weight(m.queue, m.phone.timer)
      <4>1. /\ Cardinality(Flashes(e)) = 0
            /\ Cardinality(Flashes(m.queue)) \in Nat /\ Len(m.queue) \in Nat
        <5>1. Cardinality(Flashes(e)) \in Nat /\ Cardinality(Flashes(e)) <= Len(e)
          BY <3>3, FlashesCount, Zenon
        <5>2. Cardinality(Flashes(m.queue)) \in Nat /\ Len(m.queue) \in Nat
          BY FlashesCount, Zenon DEF Sound
        <5>3. PICK c, k : c = Cardinality(Flashes(e)) /\ k = Len(e)
          OBVIOUS
        <5>4. c \in Nat /\ c <= k /\ k = 0
          BY <3>3, <5>1, <5>3, Zenon
        <5>5. c = 0
          BY <5>4
        <5>6. QED
          BY <5>2, <5>3, <5>5, Zenon
      <4>2. PICK tick \in {0, 1} : tick = IF m.phone.timer THEN 1 ELSE 0
        OBVIOUS
      <4>3. Weight(e, m.phone.timer) = tick
        BY <3>3, <4>1, <4>2 DEF Weight
      <4>4. Weight(m.queue, m.phone.timer)
              = Len(m.queue) + Cardinality(Flashes(m.queue)) + tick
        BY <4>2 DEF Weight
      <4>5. QED
        BY <4>1, <4>3, <4>4
    <3>5. QED
      BY <3>1, <3>2, <3>4
  <2>4. Weight(m.queue, m.phone.timer) \in Nat
    BY WeightIsNumber DEF Sound
  <2>5. Weight(n.queue, n.phone.timer) <= Weight(m.queue, m.phone.timer) + 0
    BY <1>1, <2>1, <2>3, <2>4
  <2>6. Sound(n)
    BY <1>1, <2>1, <2>2, <2>3 DEF Sound
  <2>7. Effects(m, n, 0)
    BY <1>1, <2>5, <2>6 DEF Effects
  <2>8. QED
    BY <1>1, <1>2, <2>7 DEF n
<1>5. QED
  BY <1>3, <1>4

LEMMA FsmGoEffects ==
  ASSUME NEW m, GoodMachine(m), Sound(m), NEW row, row.handler \in Handlers, row.new \in States,
         NEW index \in Nat, NEW words \in Seq(ARGUMENT), NEW event, NEW x, table \in TABLE,
         x.junk \in Seq(ARGUMENT), NEW by, Behaves(by)
  PROVE  LET n == FsmGo(m, row, index, words, event, x, by)
         IN /\ Sound(n)
            /\ Weight(n.queue, n.phone.timer)
                 <= Weight(m.queue, m.phone.timer) + Gain(row.handler)
            /\ by = Alone =>
                 \/ n.phone.fxsState = m.phone.fxsState
                 \/ Moves(m, n, row, RunAction(table, index, m.link, words, x.junk))
<1>. DEFINE l == RunAction(table, index, m.link, words, x.junk)
            acted == [m EXCEPT !.link = RunAction(table, index, @, words, x.junk)]
            ran == Meanwhile(acted, by, "handler")
            handled == EventHandler(row.handler, ran, event, x)
            after == Meanwhile(handled, by, "state")
            moved == [after EXCEPT !.phone.fxsState = row.new]
            n == FsmGo(m, row, index, words, event, x, by)
<1>1. n = CASE ran.link.beyond -> ran
            [] ~ran.link.beyond /\ Failed(ran.link) -> Undone(ran)
            [] OTHER -> IF after.link.beyond \/ ~after.ok \/ row.new = "MAX" THEN after
                        ELSE moved
  BY DEF FsmGo
<1>2. l \in LINK
  BY ActionRuns DEF Sound
<1>3. acted = [m EXCEPT !.link = l]
  BY DEF GoodMachine, IsMachine
<1>. HIDE DEF n, acted, l
<1>4. /\ IsMachine(acted) /\ acted.link = l /\ acted.queue = m.queue /\ acted.phone = m.phone
      /\ GoodMachine(acted)
  <2>1. Untouched(m, acted)
    BY <1>3, SmallSteps DEF GoodMachine
  <2>2. QED
    BY <1>3, <2>1, LinkOnly, UntouchedIsGood DEF GoodMachine
<1>5. Sound(acted) /\ Weight(acted.queue, acted.phone.timer) = Weight(m.queue, m.phone.timer)
  BY <1>2, <1>4 DEF Sound
<1>a. /\ GoodMachine(ran) /\ Effects(acted, ran, 0)
      /\ by = Alone => ran = acted
  BY <1>4, <1>5, MeanwhileEffects
<1>. HIDE DEF ran
<1>b. Sound(ran) /\ IsMachine(ran)
  BY <1>a DEF Effects, GoodMachine
<1>6. Effects(ran, Undone(ran), 0)
  BY <1>b, ResultEffects
<1>c. /\ Effects(ran, handled, Gain(row.handler)) /\ GoodMachine(handled)
      /\ row.handler \in {"dummy", "hookOffBeCalled"} => handled.link = ran.link
  BY <1>a, <1>b, HandlerEffects, HandlerKeeps
<1>. HIDE DEF handled
<1>7. /\ Effects(handled, after, 0) /\ GoodMachine(after)
      /\ by = Alone => after = handled
  BY <1>c, MeanwhileEffects DEF Effects
<1>. HIDE DEF after
<1>8. /\ moved.queue = after.queue /\ moved.link = after.link
      /\ moved.phone.timer = after.phone.timer /\ moved.phone.fxsState = row.new
  BY <1>7 DEF GoodMachine, IsMachine, Good, PHONE
<1>. HIDE DEF moved
<1>9. /\ Weight(m.queue, m.phone.timer) \in Nat /\ Weight(ran.queue, ran.phone.timer) \in Nat
      /\ Weight(Undone(ran).queue, Undone(ran).phone.timer) \in Nat
      /\ Weight(handled.queue, handled.phone.timer) \in Nat
      /\ Weight(after.queue, after.phone.timer) \in Nat
      /\ Gain(row.handler) \in Nat
  BY <1>6, <1>7, <1>b, <1>c, WeightIsNumber DEF Effects, Sound, Gain
<1>d. /\ Weight(ran.queue, ran.phone.timer) <= Weight(m.queue, m.phone.timer)
      /\ ran.phone.fxsState = m.phone.fxsState
  BY <1>4, <1>5, <1>9, <1>a DEF Effects
<1>e. /\ Weight(after.queue, after.phone.timer)
           <= Weight(m.queue, m.phone.timer) + Gain(row.handler)
      /\ after.phone.fxsState = m.phone.fxsState
  BY <1>7, <1>9, <1>c, <1>d DEF Effects
<1>10. CASE n = ran
  BY <1>9, <1>10, <1>b, <1>d DEF n
<1>11. CASE n = Undone(ran)
  BY <1>6, <1>9, <1>11, <1>d DEF Effects, n
<1>12. CASE n = after
  BY <1>7, <1>12, <1>e DEF Effects, n
<1>13. CASE n = moved /\ row.new # "MAX" /\ ~ ran.link.beyond /\ ~ Failed(ran.link)
  <2>1. Sound(n)
    BY <1>7, <1>8, <1>13 DEF Effects, Sound
  <2>2. Weight(n.queue, n.phone.timer) <= Weight(m.queue, m.phone.timer) + Gain(row.handler)
    BY <1>8, <1>13, <1>e
  <2>3. by = Alone => Moves(m, n, row, l)
    BY <1>4, <1>7, <1>8, <1>13, <1>a, <1>c DEF Moves
  <2>4. QED
    BY <2>1, <2>2, <2>3 DEF n, l
<1>14. QED
  BY <1>1, <1>10, <1>11, <1>12, <1>13

LEMMA DynamicEffects ==
  ASSUME NEW m, GoodMachine(m), Sound(m), NEW event, NEW state, NEW x, table \in TABLE,
         x.junk \in Seq(ARGUMENT)
  PROVE  Effects(m, RunDynamic(m, event, state, x), 0)
<1>. DEFINE found == SearchDynamicFsmCtx(table, event.type, state)
            d == CHOOSE d \in found : TRUE
            index == table.dynamic[d].index
            row == Row(event.type, state, "MAX", "dummy", "dummy", index)
            T == {k \in DOMAIN table.dynamic :
                    table.dynamic[k].event = event.type /\ table.dynamic[k].cur = state}
<1>1. row.handler = "dummy" /\ row.new = "MAX" /\ Gain("dummy") = 0
      /\ "dummy" \in Handlers /\ "MAX" \in States
  BY DEF Row, Handlers, States, Gain
<1>2. RunDynamic(m, event, state, x) =
        IF found = {} THEN m ELSE FsmGo(m, row, index, DynamicData, event, x, Alone)
  BY DEF RunDynamic
<1>3. ASSUME found # {}
      PROVE  index \in Nat
  <2>1. found = FirstOf(T) /\ T \subseteq DOMAIN table.dynamic
    BY DEF SearchDynamicFsmCtx
  <2>2. d \in found
    BY <1>3
  <2>3. table.dynamic \in Seq(DYNAMIC)
    BY DEF TABLE
  <2>4. T \subseteq Nat
    BY <2>1, <2>3
  <2>. HIDE DEF T, found, d
  <2>5. d \in DOMAIN table.dynamic
    BY <2>1, <2>2, <2>4, FirstIn
  <2>6. table.dynamic[d] \in DYNAMIC
    BY <2>3, <2>5
  <2>7. QED
    BY <2>6 DEF DYNAMIC
<1>4. DynamicData \in Seq(ARGUMENT)
  <2>1. endpt \in Int
    BY PhoneAssumption DEF Endpts
  <2>2. QED
    BY <2>1, WordsAreWords, OneElement DEF DynamicData
<1>. HIDE DEF index, row, found
<1>5. CASE found = {}
  <2>1. Effects(m, m, 0)
    BY NothingPut DEF Sound
  <2>2. QED
    BY <1>2, <1>5, <2>1
<1>6. CASE found # {}
  <2>. DEFINE n == FsmGo(m, row, index, DynamicData, event, x, Alone)
  <2>1. /\ Sound(n)
        /\ Weight(n.queue, n.phone.timer) <= Weight(m.queue, m.phone.timer) + Gain(row.handler)
        /\ \/ n.phone.fxsState = m.phone.fxsState
           \/ Moves(m, n, row, RunAction(table, index, m.link, DynamicData, x.junk))
    <3>1. Behaves(Alone)
      BY DEF Behaves
    <3>2. QED
      BY <1>1, <1>3, <1>4, <1>6, <3>1, FsmGoEffects
  <2>. HIDE DEF n
  <2>2. Effects(m, n, 0)
    BY <1>1, <2>1 DEF Moves, Effects
  <2>3. QED
    BY <1>2, <1>6, <2>2 DEF n
<1>7. QED
  BY <1>5, <1>6

-----------------------------------------------------------------------------
(* The rows: what their handlers put weighs no more than what they handle, *)
(* and two of them lead to a talk.                                         *)
LEMMA RowGains ==
  ASSUME NEW r \in Rows
  PROVE  Gain(FsmCtxs[r].handler) <= Worth(FsmCtxs[r].event)
<1>1. r \in 1 .. 19
  BY DEF Rows, FsmCtxs
<1>2. QED
  BY <1>1 DEF FsmCtxs, Row, Gain, Worth

LEMMA TalkRows ==
  ASSUME NEW r \in Rows, FsmCtxs[r].new = "TALKING"
  PROVE  /\ FsmCtxs[r].handler \in {"dummy", "hookOffBeCalled"}
         /\ \/ FsmCtxs[r].event = "CALL_ACCEPT"
            \/ FsmCtxs[r].event = "HOOK_OFF" /\ FsmCtxs[r].cur = "BE_CALLED"
<1>1. r \in 1 .. 19
  BY DEF Rows, FsmCtxs
<1>2. QED
  BY <1>1 DEF FsmCtxs, Row

LEMMA RowMatches ==
  ASSUME NEW event, NEW state, NEW r \in SearchFsmCtx(event, state)
  PROVE  r \in Rows /\ FsmCtxs[r].event = event /\ FsmCtxs[r].cur \in {state, "MAX"}
<1>. DEFINE T == {q \in Rows : FsmCtxs[q].event = event /\ FsmCtxs[q].cur \in {state, "MAX"}}
<1>1. T \subseteq Nat
  BY RowsKnown
<1>2. SearchFsmCtx(event, state) = FirstOf(T)
  BY DEF SearchFsmCtx
<1>. HIDE DEF T
<1>3. r \in T
  BY <1>1, <1>2, FirstIn
<1>4. QED
  BY <1>3 DEF T

(* The words of the rows are words.                                        *)
TalkWords == <<Number(endpt), Text("ip"), Number(11000), Number(11001)>>

LEMMA DataAreWords ==
  ASSUME NEW event, NEW state
  PROVE  /\ ActionData(event, state) \in Seq(ARGUMENT)
         /\ TalkWords \in Seq(ARGUMENT)
         /\ \/ event.type = "CALL_ACCEPT"
            \/ event.type = "HOOK_OFF" /\ state = "BE_CALLED"
            => ActionData(event, state) = TalkWords
<1>1. endpt \in Int
  BY PhoneAssumption DEF Endpts
<1>2. /\ Number(endpt) \in ARGUMENT /\ Number(456) \in ARGUMENT /\ Number(11000) \in ARGUMENT
      /\ Number(11001) \in ARGUMENT
  BY <1>1, WordsAreWords
<1>a. "ip" \in TEXTS
  BY DEF TEXTS
<1>b. Text("ip") \in ARGUMENT
  BY <1>a, WordsAreWords
<1>3. << >> \in Seq(ARGUMENT)
  OBVIOUS
<1>p. /\ \A a, b \in ARGUMENT : <<a, b>> \in Seq(ARGUMENT)
      /\ \A a, b, c, d \in ARGUMENT : <<a, b, c, d>> \in Seq(ARGUMENT)
  BY TuplesAreSeqs, Zenon
<1>c. <<Number(endpt), Number(456)>> \in Seq(ARGUMENT)
  <2>1. PICK a, b : a = Number(endpt) /\ b = Number(456)
    OBVIOUS
  <2>2. <<a, b>> \in Seq(ARGUMENT)
    <3>1. a \in ARGUMENT /\ b \in ARGUMENT
      BY <1>2, <2>1
    <3>2. QED
      BY <3>1, <1>p, Zenon
  <2>3. QED
    BY <2>1, <2>2
<1>d. <<Number(endpt)>> \in Seq(ARGUMENT)
  BY <1>2, OneElement
<1>e. TalkWords \in Seq(ARGUMENT)
  <2>1. PICK a, b, c, d : a = Number(endpt) /\ b = Text("ip") /\ c = Number(11000) /\ d = Number(11001)
    OBVIOUS
  <2>2. <<a, b, c, d>> \in Seq(ARGUMENT)
    <3>1. a \in ARGUMENT /\ b \in ARGUMENT /\ c \in ARGUMENT /\ d \in ARGUMENT
      BY <1>2, <1>b, <2>1
    <3>2. QED
      BY <3>1, <1>p, Zenon
  <2>3. QED
    BY <2>1, <2>2 DEF TalkWords
<1>4. /\ <<Number(endpt), Number(456)>> \in Seq(ARGUMENT) /\ <<Number(endpt)>> \in Seq(ARGUMENT)
      /\ TalkWords \in Seq(ARGUMENT)
  BY <1>c, <1>d, <1>e
<1>5. ActionData(event, state) =
        CASE event.type = "CALLING" /\ state = "HOOK_ON" -> <<Number(endpt), Number(456)>>
          [] \/ event.type = "HOOK_OFF" /\ state = "BE_CALLED"
             \/ event.type = "CALL_ACCEPT" -> TalkWords
          [] event.type = "DTMF_END" \/ (event.type = "CALLING" /\ state # "HOOK_ON") -> << >>
          [] OTHER -> <<Number(endpt)>>
  BY DEF ActionData, TalkWords
<1>6. PICK two, one : two = <<Number(endpt), Number(456)>> /\ one = <<Number(endpt)>>
  OBVIOUS
<1>. HIDE DEF TalkWords
<1>7. QED
  BY <1>3, <1>4, <1>5, <1>6

-----------------------------------------------------------------------------
(* The static row: what it puts weighs no more than the event it is for,   *)
(* and it alone can change the state.                                      *)
LEMMA StaticEffects ==
  ASSUME NEW m, GoodMachine(m), Sound(m), NEW event, NEW state, NEW x, table \in TABLE,
         x.junk \in Seq(ARGUMENT), NEW by, Behaves(by)
  PROVE  LET n == RunStatic(m, event, state, x, by)
         IN /\ Sound(n)
            /\ Weight(n.queue, n.phone.timer)
                 <= Weight(m.queue, m.phone.timer) + Worth(event.type)
            /\ by = Alone =>
                 \/ n.phone.fxsState = m.phone.fxsState
                 \/ \E r \in SearchFsmCtx(event.type, state) :
                      Moves(m, n, FsmCtxs[r],
                            RunAction(table, table.rows[r], m.link, ActionData(event, state),
                                      x.junk))
<1>. DEFINE found == SearchFsmCtx(event.type, state)
            r == CHOOSE r \in found : TRUE
            n == RunStatic(m, event, state, x, by)
<1>1. n = IF found = {} \/ m.link.beyond THEN m
          ELSE FsmGo(m, FsmCtxs[r], table.rows[r], ActionData(event, state), event, x, by)
  BY DEF RunStatic
<1>2. Weight(m.queue, m.phone.timer) \in Nat /\ Worth(event.type) \in Nat
  BY WeightIsNumber DEF Sound, Worth
<1>3. CASE n = m
  BY <1>2, <1>3
<1>4. CASE found # {}
           /\ n = FsmGo(m, FsmCtxs[r], table.rows[r], ActionData(event, state), event, x, by)
  <2>1. r \in SearchFsmCtx(event.type, state)
    BY <1>4
  <2>. HIDE DEF r, n
  <2>2. r \in Rows /\ FsmCtxs[r].event = event.type
    BY <2>1, RowMatches
  <2>3. table.rows[r] \in Nat
    BY <2>2 DEF TABLE
  <2>4. FsmCtxs[r].handler \in Handlers /\ FsmCtxs[r].new \in States
    BY <2>2, RowsKnown
  <2>5. ActionData(event, state) \in Seq(ARGUMENT)
    BY DataAreWords
  <2>6. /\ Sound(n)
        /\ Weight(n.queue, n.phone.timer)
             <= Weight(m.queue, m.phone.timer) + Gain(FsmCtxs[r].handler)
        /\ by = Alone =>
             \/ n.phone.fxsState = m.phone.fxsState
             \/ Moves(m, n, FsmCtxs[r],
                      RunAction(table, table.rows[r], m.link, ActionData(event, state), x.junk))
    BY <1>4, <2>3, <2>4, <2>5, FsmGoEffects
  <2>7. Gain(FsmCtxs[r].handler) <= Worth(event.type)
    BY <2>2, RowGains
  <2>8. Weight(n.queue, n.phone.timer) \in Nat
    BY <2>6, WeightIsNumber DEF Sound
  <2>9. Weight(n.queue, n.phone.timer) <= Weight(m.queue, m.phone.timer) + Worth(event.type)
    BY <1>2, <2>6, <2>7, <2>8 DEF Gain
  <2>10. QED
    BY <2>1, <2>6, <2>9 DEF n
<1>5. QED
  BY <1>1, <1>3, <1>4

(* The voice is started by the last handler of the action: all before it   *)
(* succeeded, or it would not have been run.                               *)
LEMMA TalkWordsEndpt ==
  ASSUME NEW s \in LINK, NEW junk
  PROVE  RunHandler(s, Handler("VOIP_RTP_ACTIVE", Silent), TalkWords, junk)
           = vt_sendRtpActive(s, endpt)
<1>. DEFINE argv == Arguments(TalkWords)
            first == CHOOSE i \in argv : \A j \in argv : i <= j
<1>1. endpt \in Nat /\ endpt < VT_ENDPT_MAX
  BY PhoneAssumption DEF Endpts, VT_ENDPT_MAX
<1>2. /\ TalkWords # << >> /\ DOMAIN TalkWords = 1 .. 4 /\ TalkWords[1] = Number(endpt)
      /\ TalkWords \o << >> = TalkWords
  BY DEF TalkWords
<1>3. HandlerArgs(Handler("VOIP_RTP_ACTIVE", Silent), TalkWords, junk) = TalkWords
  BY <1>2 DEF HandlerArgs, Handler, Silent, PrepareHandlerData, NeedAllDataCmd
<1>4. RunHandler(s, Handler("VOIP_RTP_ACTIVE", Silent), TalkWords, junk)
        = SendCommand(s, "VOIP_RTP_ACTIVE", TalkWords)
  <2>1. Handler("VOIP_RTP_ACTIVE", Silent).cmd = "VOIP_RTP_ACTIVE"
    BY DEF Handler
  <2>2. QED
    BY <1>3, <2>1 DEF RunHandler
<1>5. SendCommand(s, "VOIP_RTP_ACTIVE", TalkWords) = cli_sendRtpActiveHandler(s, TalkWords)
  BY DEF SendCommand
<1>6. argv = {i \in 1 .. 4 : /\ TalkWords[i].kind # "option"
                             /\ IsDigit(TalkWords[i]) => TalkWords[i].number >= 0}
  BY <1>2 DEF Arguments
<1>7. IsDigit(TalkWords[1]) /\ TalkWords[1].number = endpt /\ TalkWords[1].kind # "option"
  <2>1. Number(endpt).kind = "number" /\ Number(endpt).number = endpt
    BY DEF Number
  <2>2. TalkWords[1].kind = "number" /\ TalkWords[1].number = endpt
    BY <1>2, <2>1
  <2>3. QED
    BY <2>2 DEF IsDigit
<1>8. 1 \in argv /\ argv \subseteq 1 .. 4
  BY <1>1, <1>6, <1>7
<1>. HIDE DEF argv
<1>9. \A i \in argv : (\A j \in argv : i <= j) <=> i = 1
  BY <1>8
<1>a. first = 1
  BY <1>8, <1>9
<1>. HIDE DEF first
<1>b. cli_sendRtpActiveHandler(s, TalkWords) =
        IF TalkWords = << >> THEN vt_sendRtpActive(s, 0)
        ELSE IF argv # {} /\ IsDigit(TalkWords[first]) /\ TalkWords[first].number <= VT_ENDPT_MAX
               THEN vt_sendRtpActive(s, TalkWords[first].number)
        ELSE Return(s, "INVAIL_ARG")
  BY Zenon DEF cli_sendRtpActiveHandler, argv, first
<1>c. cli_sendRtpActiveHandler(s, TalkWords) = vt_sendRtpActive(s, endpt)
  BY <1>1, <1>2, <1>7, <1>8, <1>a, <1>b DEF VT_ENDPT_MAX
<1>10. QED
  BY <1>4, <1>5, <1>c

LEMMA TalkRan ==
  ASSUME table \in TABLE, TalkStartsVoice, NEW r \in Rows, FsmCtxs[r].new = "TALKING",
         NEW s \in LINK, NEW junk \in Seq(ARGUMENT), NEW l,
         l = RunAction(table, table.rows[r], s, TalkWords, junk),
         ~ l.beyond, ~ Failed(l), ~ l.lost
  PROVE  l.openChannel[endpt] \in l.server.rtp
<1>. DEFINE index == table.rows[r]
            handlers == table.actions[index].handlers
            n == Len(handlers)
<1>1. /\ index \in DOMAIN table.actions /\ handlers # << >>
      /\ Last(handlers) = Handler("VOIP_RTP_ACTIVE", Silent)
  BY DEF TalkStartsVoice
<1>2. table.actions \in Seq(ENTRY)
  BY DEF TABLE
<1>3. /\ index \in Nat /\ index # 0 /\ index <= Len(table.actions) /\ Len(table.actions) \in Nat
      /\ table.actions[index] \in ENTRY
  BY <1>1, <1>2
<1>. HIDE DEF index
<1>4. handlers \in Seq(RUNNABLE) \union {NoHandlers}
  BY <1>3 DEF ENTRY
<1>5. handlers # NoHandlers
  <2>1. handlers = NoHandlers => NoAction(table, index)
    BY <1>3 DEF NoAction
  <2>2. NoAction(table, index) => l = [s EXCEPT !.beyond = TRUE]
    BY <1>3 DEF RunAction, index
  <2>3. [s EXCEPT !.beyond = TRUE].beyond = TRUE
    BY DEF LINK
  <2>4. QED
    BY <2>1, <2>2, <2>3
<1>6. ~ NoAction(table, index)
  BY <1>3, <1>5 DEF NoAction
<1>7. l = ActionGo(s, handlers, TalkWords, junk)
  BY <1>3, <1>6 DEF RunAction, index
<1>. HIDE DEF handlers
<1>8. handlers \in Seq(RUNNABLE) /\ n \in Nat /\ n >= 1 /\ handlers[n] = Handler("VOIP_RTP_ACTIVE", Silent)
  <2>1. handlers \in Seq(RUNNABLE)
    BY <1>4, <1>5
  <2>2. n \in Nat /\ n >= 1
    BY <1>1, <2>1, EmptySeq
  <2>3. QED
    BY <1>1, <2>1, <2>2 DEF Last
<1>9. TalkWords \in Seq(ARGUMENT)
  BY DataAreWords
<1>10. PICK f \in [0 .. n -> LINK] :
         /\ \A i \in 1 .. n : f[i] = AfterHandler(f[i - 1], handlers[i], TalkWords, junk)
         /\ l = f[n]
  BY <1>7, <1>8, <1>9, ActionSteps
<1>. HIDE DEF n
<1>11. /\ f[n] = AfterHandler(f[n - 1], Handler("VOIP_RTP_ACTIVE", Silent), TalkWords, junk)
       /\ f[n - 1] \in LINK
  BY <1>8, <1>10
<1>12. ~ Failed(f[n - 1]) /\ ~ f[n - 1].beyond
  BY <1>10, <1>11 DEF AfterHandler
<1>13. l = vt_sendRtpActive(f[n - 1], endpt)
  BY <1>10, <1>11, <1>12, TalkWordsEndpt DEF AfterHandler
<1>14. endpt \in Endpts /\ endpt \in Int
  BY PhoneAssumption DEF Endpts
<1>15. QED
  BY <1>11, <1>13, <1>14, RtpStarted

LEMMA TalkBegins ==
  ASSUME NEW m, GoodMachine(m), Sound(m), NEW event, NEW state, NEW x, table \in TABLE,
         x.junk \in Seq(ARGUMENT), TalkStartsVoice,
         NEW n, n = RunStatic(m, event, state, x, Alone),
         m.phone.fxsState # "TALKING", n.phone.fxsState = "TALKING", ~ n.link.lost
  PROVE  n.link.openChannel[endpt] \in n.link.server.rtp
<1>1. PICK r \in SearchFsmCtx(event.type, state) :
        Moves(m, n, FsmCtxs[r],
              RunAction(table, table.rows[r], m.link, ActionData(event, state), x.junk))
  <2>1. Behaves(Alone)
    BY DEF Behaves
  <2>2. QED
    BY <2>1, StaticEffects
<1>2. r \in Rows /\ FsmCtxs[r].event = event.type /\ FsmCtxs[r].cur \in {state, "MAX"}
  BY RowMatches
<1>3. FsmCtxs[r].new = "TALKING"
  BY <1>1 DEF Moves
<1>4. /\ FsmCtxs[r].handler \in {"dummy", "hookOffBeCalled"}
      /\ \/ FsmCtxs[r].event = "CALL_ACCEPT"
         \/ FsmCtxs[r].event = "HOOK_OFF" /\ FsmCtxs[r].cur = "BE_CALLED"
  BY <1>2, <1>3, TalkRows
<1>5. ActionData(event, state) = TalkWords
  BY <1>2, <1>4, DataAreWords
<1>6. PICK l : l = RunAction(table, table.rows[r], m.link, TalkWords, x.junk)
  OBVIOUS
<1>7. n.link = l /\ ~ l.beyond /\ ~ Failed(l)
  BY <1>1, <1>4, <1>5, <1>6 DEF Moves
<1>8. QED
  BY <1>2, <1>3, <1>6, <1>7, TalkRan DEF Sound

-----------------------------------------------------------------------------
(* What the link, the table and the rest always look like, and what the    *)
(* queue weighs: a report comes only while there is room for it, a far     *)
(* end's message likewise, the timer's event weighs what the timer did,    *)
(* and what a handler puts weighs no more than the event it handles.       *)
Shaped ==
  /\ handset \in {"on", "off"} /\ quiet \in BOOLEAN
  /\ queue \in Seq(EVENT) /\ Weight(queue, phone.timer) <= 2 * MaxQueue + 1
  /\ link \in LINK /\ table \in TABLE
  /\ dtmfDigitMap \in [Keys -> DtmfDigits \union {"none"}]
  /\ file \in DOMAIN Files

(* What an action without words finds on the stack.                        *)
LEMMA JunkIsWords ==
  ASSUME NEW junk, junk \in Junk \/ junk = << >>
  PROVE  junk \in Seq(ARGUMENT)
<1>2. << >> \in Seq(ARGUMENT)
  OBVIOUS
<1>3. "junk" \in TEXTS
  BY DEF TEXTS
<1>4. Number(0) \in ARGUMENT /\ Text("junk") \in ARGUMENT
  BY <1>3, WordsAreWords
<1>5. <<Number(0)>> \in Seq(ARGUMENT) /\ <<Text("junk")>> \in Seq(ARGUMENT)
  BY <1>4, OneElement
<1>6. QED
  BY <1>2, <1>5 DEF Junk

(* The choices of a step.                                                  *)
LEMMA ChoicesShaped ==
  ASSUME NEW event, NEW x \in Outcomes(event)
  PROVE  x.junk \in Seq(ARGUMENT)
<1>1. x.junk \in Junk \/ x.junk = << >>
  BY DEF Outcomes
<1>2. QED
  BY <1>1, JunkIsWords

LEMMA BreaksShaped ==
  ASSUME NEW s \in LINK, NEW t \in Breaks(s)
  PROVE  t \in LINK
<1>1. BreakAt \subseteq Int
  BY PhoneAssumption
<1>2. CASE t = Whole(s)
  <2>1. Writes \in Int
    BY DEF Writes
  <2>2. Whole(s) \in LINK
    BY <2>1, LinkUpdates, Zenon DEF Whole
  <2>3. QED
    BY <1>2, <2>2
<1>3. CASE \E n \in BreakAt, fate \in {"fails", "vanishes"} : t = BreaksAfter(s, n, fate)
  <2>1. PICK n \in BreakAt, fate \in {"fails", "vanishes"} : t = BreaksAfter(s, n, fate)
    BY <1>3
  <2>2. PICK a : a = [s EXCEPT !.good = n]
    OBVIOUS
  <2>3. a \in LINK
    BY <1>1, <2>2, LinkUpdates
  <2>4. t = [a EXCEPT !.fate = fate]
    BY <2>1, <2>2 DEF BreaksAfter
  <2>5. QED
    BY <2>3, <2>4, LinkUpdates
<1>4. QED
  BY <1>2, <1>3 DEF Breaks

LEMMA SettledShaped ==
  ASSUME NEW s \in LINK
  PROVE  /\ Settled(s) \in LINK
         /\ Settled(s).openChannel = s.openChannel /\ Settled(s).server = s.server
         /\ Settled(s).lost = s.lost
<1>1. PICK a : a = [s EXCEPT !.good = 0]
  OBVIOUS
<1>0. [s EXCEPT !.good = 0] \in LINK
  <2>1. PICK z \in Int : z = 0
    OBVIOUS
  <2>2. [s EXCEPT !.good = z] \in LINK
    BY LinkUpdates
  <2>3. QED
    BY <2>1, <2>2
<1>2. PICK b : b = [a EXCEPT !.fate = "fails"]
  OBVIOUS
<1>3. PICK c : c = [b EXCEPT !.result = "OK"]
  OBVIOUS
<1>4. Settled(s) = c
  BY <1>1, <1>2, <1>3 DEF Settled
<1>5. a \in LINK /\ a.openChannel = s.openChannel /\ a.server = s.server /\ a.lost = s.lost
  <2>1. a \in LINK
    BY <1>0, <1>1
  <2>2. a.openChannel = s.openChannel /\ a.server = s.server /\ a.lost = s.lost
    BY <1>1 DEF LINK
  <2>3. QED
    BY <2>1, <2>2
<1>6. b \in LINK /\ b.openChannel = s.openChannel /\ b.server = s.server /\ b.lost = s.lost
  <2>1. b \in LINK
    BY <1>2, <1>5, LinkUpdates
  <2>2. b.openChannel = a.openChannel /\ b.server = a.server /\ b.lost = a.lost
    BY <1>2, <1>5 DEF LINK
  <2>3. QED
    BY <2>1, <2>2, <1>5
<1>7. c \in LINK /\ c.openChannel = s.openChannel /\ c.server = s.server /\ c.lost = s.lost
  <2>1. c \in LINK
    BY <1>3, <1>6, LinkUpdates
  <2>2. c.openChannel = b.openChannel /\ c.server = b.server /\ c.lost = b.lost
    BY <1>3, <1>6 DEF LINK
  <2>3. QED
    BY <2>1, <2>2, <1>6
<1>8. QED
  BY <1>4, <1>7

(* Handling an event.                                                      *)
LEMMA ProcessShapes ==
  ASSUME IInv, Shaped, queue # << >>, NEW s \in LINK, NEW x, x.junk \in Seq(ARGUMENT),
         NEW by, Behaves(by), NEW n, n = ProcessEvent(s, Head(queue), x, by)
  PROVE  /\ Sound(n) /\ Weight(n.queue, n.phone.timer) <= 2 * MaxQueue + 1
         /\ (/\ by = Alone /\ TalkStartsVoice /\ phone.fxsState # "TALKING" /\ n.phone.fxsState = "TALKING"
             /\ ~ n.link.lost)
            => n.link.openChannel[endpt] \in n.link.server.rtp
<1>. DEFINE m == [phone |-> phone, queue |-> Tail(queue), link |-> s, typed |-> typed,
                  called |-> called, ok |-> TRUE]
            event == Head(queue)
            dynamic == RunDynamic(m, event, phone.fxsState, x)
            d == Meanwhile(dynamic, by, "row")
<1>1. n = RunStatic(d, event, phone.fxsState, x, by)
  BY DEF ProcessEvent
<1>2. GoodMachine(m) /\ m.phone = phone /\ m.queue = Tail(queue) /\ m.link = s
  BY DEF IInv, GoodMachine, IsMachine
<1>3. phone.timer \in BOOLEAN
  BY DEF IInv, Good, PHONE
<1>4. /\ Tail(queue) \in Seq(EVENT)
      /\ Weight(Tail(queue), phone.timer) + Worth(event.type) <= Weight(queue, phone.timer)
  BY <1>3, TailWeighs DEF Shaped
<1>5. Sound(m)
  BY <1>2, <1>3, <1>4 DEF Sound
<1>6. table \in TABLE
  BY DEF Shaped
<1>. HIDE DEF m, event
<1>a. Effects(m, dynamic, 0) /\ GoodMachine(dynamic)
  BY <1>2, <1>5, <1>6, DynamicEffects, DynamicKeeps
<1>. HIDE DEF dynamic
<1>7. Effects(dynamic, d, 0) /\ GoodMachine(d)
  BY <1>a, MeanwhileEffects DEF Effects
<1>. HIDE DEF d
<1>8. Sound(d) /\ d.phone.fxsState = phone.fxsState
      /\ Weight(d.queue, d.phone.timer) <= Weight(m.queue, m.phone.timer) + 0
  <2>1. /\ Weight(m.queue, m.phone.timer) \in Nat /\ Weight(d.queue, d.phone.timer) \in Nat
        /\ Weight(dynamic.queue, dynamic.phone.timer) \in Nat
    BY <1>5, <1>7, <1>a, WeightIsNumber DEF Effects, Sound
  <2>2. QED
    BY <1>2, <1>7, <1>a, <2>1 DEF Effects
<1>9. /\ Sound(n)
      /\ Weight(n.queue, n.phone.timer) <= Weight(d.queue, d.phone.timer) + Worth(event.type)
  BY <1>1, <1>6, <1>7, <1>8, StaticEffects
<1>10. Weight(n.queue, n.phone.timer) <= 2 * MaxQueue + 1
  <2>1. /\ Weight(n.queue, n.phone.timer) \in Nat /\ Weight(d.queue, d.phone.timer) \in Nat
        /\ Weight(m.queue, m.phone.timer) \in Nat /\ Weight(queue, phone.timer) \in Nat
        /\ Worth(event.type) \in Nat /\ MaxQueue \in Nat
    BY <1>3, <1>5, <1>8, <1>9, WeightIsNumber, PhoneAssumption DEF Sound, Worth, Shaped
  <2>2. Weight(queue, phone.timer) <= 2 * MaxQueue + 1
    BY DEF Shaped
  <2>3. QED
    BY <1>2, <1>4, <1>8, <1>9, <2>1, <2>2
<1>11. ASSUME by = Alone, TalkStartsVoice, phone.fxsState # "TALKING", n.phone.fxsState = "TALKING",
              ~ n.link.lost
       PROVE  n.link.openChannel[endpt] \in n.link.server.rtp
  BY <1>1, <1>6, <1>7, <1>8, <1>11, TalkBegins
<1>12. QED
  BY <1>9, <1>10, <1>11

-----------------------------------------------------------------------------
(* The operator.                                                           *)
(* What was typed is a line of words, behind its commands, too.            *)
LEMMA RestShaped ==
  ASSUME NEW words \in Seq(ARGUMENT)
  PROVE  Rest(words) \in Seq(ARGUMENT)
<1>1. words # << >> => Tail(words) \in Seq(ARGUMENT)
  BY HeadTailProperties
<1>2. QED
  BY <1>1 DEF Rest

LEMMA TypedShaped ==
  ASSUME NEW c \in Typed
  PROVE  /\ c.words \in Seq(ARGUMENT) /\ Rest(c.words) \in Seq(ARGUMENT)
         /\ Len(c.cmd) = 2 /\ c.cmd[1] = "send" => c.cmd[2] \in SendSubcmds
<1>1. PICK line \in Commands : c = ExecCmd(line)
  BY DEF Typed
<1>2. line \in Seq(ARGUMENT)
  BY CommandsAssumption, WordsOfFiles
<1>3. Rest(line) \in Seq(ARGUMENT) /\ Rest(Rest(line)) \in Seq(ARGUMENT)
  BY <1>2, RestShaped
<1>. DEFINE cmd == FirstText(line)
            sub == FirstText(Rest(line))
<1>4. c = IF cmd \notin TopCmds THEN [cmd |-> << >>, words |-> line]
          ELSE IF sub \in Subcmds(cmd) THEN [cmd |-> <<cmd, sub>>, words |-> Rest(Rest(line))]
          ELSE [cmd |-> <<cmd>>, words |-> Rest(line)]
  BY <1>1 DEF ExecCmd
<1>. HIDE DEF cmd, sub
<1>5. c.words \in Seq(ARGUMENT)
  BY <1>2, <1>3, <1>4
<1>6. ASSUME Len(c.cmd) = 2, c.cmd[1] = "send"
      PROVE  c.cmd[2] \in SendSubcmds
  <2>1. sub \in Subcmds(cmd) /\ c.cmd = <<cmd, sub>>
    BY <1>4, <1>6
  <2>2. cmd = "send" /\ c.cmd[2] = sub
    BY <1>6, <2>1
  <2>3. QED
    BY <2>1, <2>2 DEF Subcmds
<1>7. QED
  BY <1>5, <1>6, RestShaped

(* A name stands for the index of an action, or for none.                  *)
LEMMA NamesFound ==
  ASSUME NEW t \in TABLE, NEW text
  PROVE  vt_getActionIdxByStr(t, text) \in Nat
<1>. DEFINE T == {i \in DOMAIN t.actions : NameBegins(t.actions[i].name, text)}
            found == FirstOf(T)
            r == CHOOSE i \in found : TRUE
<1>1. T \subseteq Nat
  <2>1. t.actions \in Seq(ENTRY)
    BY DEF TABLE
  <2>2. QED
    BY <2>1
<1>2. vt_getActionIdxByStr(t, text) = IF found = {} THEN 0 ELSE r
  BY DEF vt_getActionIdxByStr
<1>3. found # {} => r \in found
  OBVIOUS
<1>. HIDE DEF T, r
<1>4. ASSUME found # {}
      PROVE  r \in Nat
  <2>1. r \in FirstOf(T)
    BY <1>3, <1>4
  <2>2. r \in T
    BY <1>1, <2>1, FirstIn
  <2>3. QED
    BY <1>1, <2>2
<1>. HIDE DEF found
<1>5. QED
  BY <1>2, <1>4

(* The defaults of the channels go out one by one.                         *)
AfterDefault(u, channel) == IF Failed(u) THEN u ELSE vt_sendChannelDefault(u, channel)

DefaultFold(it, s) ==
  it = [T \in SUBSET DOMAIN <<0, 1, 2, 3>> |->
          IF T = {} THEN s ELSE AfterDefault(it[T \ {Max(T)}], <<0, 1, 2, 3>>[Max(T)])]

LEMMA DefaultsAreFold ==
  ASSUME NEW s
  PROVE  SendAllChannelDefault(s) = (CHOOSE it : DefaultFold(it, s))[DOMAIN <<0, 1, 2, 3>>]
  BY Zenon DEF SendAllChannelDefault, FoldLeft, MapThenFoldSet, DefaultFold, AfterDefault

LEMMA DefaultsSent ==
  ASSUME NEW s \in LINK
  PROVE  SendAllChannelDefault(s) \in LINK
<1>. DEFINE channels == <<0, 1, 2, 3>>
            n == 4
            g == [p \in LINK \X (1 .. n) |-> AfterDefault(p[1], channels[p[2]])]
<1>1. n \in Nat /\ DOMAIN channels = 1 .. n /\ \A i \in 1 .. n : channels[i] \in Int
  OBVIOUS
<1>. HIDE DEF channels, n
<1>2. \A u \in LINK, i \in 1 .. n : AfterDefault(u, channels[i]) \in LINK
  BY <1>1, ForEndptSent DEF AfterDefault
<1>3. g \in [LINK \X (1 .. n) -> LINK]
  BY <1>2
<1>4. \A u \in LINK, i \in 1 .. n : g[<<u, i>>] = AfterDefault(u, channels[i])
  OBVIOUS
<1>. HIDE DEF g
<1>5. PICK d : Iterates(d, LINK, s, n, g)
  BY <1>1, <1>3, Iteration
<1>6. DefaultFold(d, s)
  <2>1. ASSUME NEW T \in SUBSET (1 .. n), T # {}
        PROVE  d[T] = AfterDefault(d[T \ {Max(T)}], channels[Max(T)])
    <3>1. Max(T) \in 1 .. n /\ d[T \ {Max(T)}] \in LINK
      <4>1. Max(T) \in T
        BY <1>1, <2>1, GreatestIn
      <4>2. T \ {Max(T)} \in SUBSET (1 .. n)
        OBVIOUS
      <4>3. QED
        BY <1>5, <4>1, <4>2 DEF Iterates
    <3>2. QED
      BY <1>4, <1>5, <2>1, <3>1 DEF Iterates
  <2>2. d = [T \in SUBSET (1 .. n) |-> d[T]] /\ d[{}] = s
    BY <1>5 DEF Iterates
  <2>3. d = [T \in SUBSET (1 .. n) |->
               IF T = {} THEN s ELSE AfterDefault(d[T \ {Max(T)}], channels[Max(T)])]
    BY <2>1, <2>2
  <2>4. QED
    BY <1>1, <2>3, Zenon DEF DefaultFold, channels
<1>7. PICK c : DefaultFold(c, s) /\ SendAllChannelDefault(s) = c[1 .. n]
  BY <1>1, <1>6, DefaultsAreFold, Zenon DEF channels
<1>8. Folds(c, LINK, s, n, g)
  <2>1. c = [T \in SUBSET (1 .. n) |->
               IF T = {} THEN s ELSE AfterDefault(c[T \ {Max(T)}], channels[Max(T)])]
    BY <1>1, <1>7, Zenon DEF DefaultFold, channels
  <2>2. \A T \in SUBSET (1 .. n) :
          c[T] = IF T = {} THEN s ELSE AfterDefault(c[T \ {Max(T)}], channels[Max(T)])
    BY <2>1, Zenon
  <2>3. {} \in SUBSET (1 .. n)
    OBVIOUS
  <2>4. \A T \in SUBSET (1 .. n) : T # {} => Max(T) \in 1 .. n
    BY <1>1, GreatestIn
  <2>5. QED
    BY <1>4, <2>2, <2>3, <2>4 DEF Folds
<1>9. PICK f : Walks(f, LINK, s, n, g, c[1 .. n])
  BY <1>1, <1>3, <1>8, FoldWalk
<1>10. f[n] \in LINK
  BY <1>1, <1>9 DEF Walks
<1>11. QED
  BY <1>7, <1>9, <1>10 DEF Walks

LEMMA ServerInitialised ==
  ASSUME NEW s \in LINK, NEW words
  PROVE  InitServerAction(s, words) \in LINK
<1>. DEFINE given == IF words = << >> THEN << >> ELSE Blank
            a == cli_sendSlicLocaleHandler(s, given)
            b == cli_sendDspDefaultHandler(a, given)
            c == cli_sendDspStartHandler(b, given)
<1>1. InitServerAction(s, words) = SendAllChannelDefault(c)
  BY DEF InitServerAction
<1>. HIDE DEF given
<1>2. a \in LINK
  BY RegionHandlers
<1>. HIDE DEF a
<1>3. b \in LINK
  BY <1>2, RegionHandlers
<1>. HIDE DEF b
<1>4. c \in LINK
  BY <1>3, RegionHandlers
<1>. HIDE DEF c
<1>5. QED
  BY <1>1, <1>4, DefaultsSent

(* A connection made or given up.                                          *)
LEMMA ConnectionsShaped ==
  ASSUME NEW s \in LINK
  PROVE  /\ \A t \in Connected(s) : t \in LINK
         /\ ConnectFailed(s) \in LINK /\ [s EXCEPT !.sock = "none"] \in LINK
<1>1. FreshServer \in SERVER /\ s.server \in SERVER
  BY DEF FreshServer, SERVER, LINK
<1>2. [s EXCEPT !.sock = "none"] \in LINK
  BY LinkUpdates
<1>3. ASSUME NEW new \in SERVER
      PROVE  [s EXCEPT !.sock = "open", !.server = new] \in LINK
  <2>1. PICK a : a = [s EXCEPT !.sock = "open"]
    OBVIOUS
  <2>2. a \in LINK
    BY <2>1, LinkUpdates
  <2>3. [s EXCEPT !.sock = "open", !.server = new] = [a EXCEPT !.server = new]
    BY <2>1
  <2>4. QED
    BY <2>2, <2>3, LinkUpdates
<1>4. ASSUME NEW t \in Connected(s)
      PROVE  t \in LINK
  <2>1. PICK new \in {s.server, FreshServer} : t = [s EXCEPT !.sock = "open", !.server = new]
    BY Zenon DEF Connected
  <2>2. QED
    BY <1>1, <1>3, <2>1
<1>5. QED
  BY <1>2, <1>4 DEF ConnectFailed

-----------------------------------------------------------------------------
(* The steps.                                                              *)
(* The keys and the link to begin with, and after a file of configuration. *)
LEMMA MapsShaped ==
  ASSUME NEW digits \in [Keys -> DtmfDigits \union {"none"}], NEW c \in DOMAIN Configs
  PROVE  InitConfig(digits, Configs[c]) \in [Keys -> DtmfDigits \union {"none"}]
<1>1. Default \in [Keys -> DtmfDigits \union {"none"}]
  BY DEF Default
<1>2. Configs[c].digits \in [Keys -> DtmfDigits \union {"none"}]
  BY PhoneAssumption
<1>3. InitConfig(digits, Configs[c]) \in {Default, digits, Configs[c].digits}
  BY DEF InitConfig
<1>4. QED
  BY <1>1, <1>2, <1>3

LEMMA FirstLink ==
  LET s == [InitialLink EXCEPT !.sock = "open"]
  IN s \in LINK
<1>1. FreshServer \in SERVER
  BY DEF FreshServer, SERVER
<1>2. [e \in Endpts |-> -1] \in [Endpts -> -1 .. MAX_CNX]
  BY DEF MAX_CNX
<1>3. InitialLink \in LINK
  BY <1>1, <1>2 DEF InitialLink, LINK
<1>4. QED
  BY <1>3, LinkUpdates

LEMMA InitShapes == Init => Shaped
<1>. SUFFICES ASSUME Init PROVE Shaped
  OBVIOUS
<1>1. handset \in {"on", "off"} /\ quiet \in BOOLEAN
  BY DEF Init
<1>2. queue \in Seq(EVENT) /\ Weight(queue, phone.timer) <= 2 * MaxQueue + 1
  <2>1. queue = << >> /\ phone.timer \in BOOLEAN
    BY DEF Init
  <2>2. queue \in Seq(EVENT) /\ Len(queue) <= MaxQueue
    BY <2>1, PhoneAssumption
  <2>3. QED
    BY <2>1, <2>2, FewEvents
<1>3. link \in LINK
  BY FirstLink DEF Init
<1>4. dtmfDigitMap \in [Keys -> DtmfDigits \union {"none"}]
  <2>1. PICK c \in {"vc_config", "missing"} : dtmfDigitMap = InitConfig(Unset, Configs[c])
    BY DEF Init
  <2>2. c \in DOMAIN Configs
    BY PhoneAssumption
  <2>3. Unset \in [Keys -> DtmfDigits \union {"none"}]
    BY DEF Unset
  <2>4. QED
    BY <2>1, <2>2, <2>3, MapsShaped
<1>5. table \in TABLE /\ file \in DOMAIN Files
  <2>1. PICK f \in {"vc_action", "missing"} : table = LoadAction(InitialTable, Files[f]) /\ file = f
    BY DEF Init
  <2>2. f \in DOMAIN Files
    BY FilesAssumption
  <2>3. QED
    BY <2>1, <2>2, FirstTable, TableLoaded
<1>6. QED
  BY <1>1, <1>2, <1>3, <1>4, <1>5 DEF Shaped

(* The users and the far ends put events while there is room for them.     *)
QueueShaped == queue' \in Seq(EVENT) /\ Weight(queue', phone'.timer) <= 2 * MaxQueue + 1

LEMMA ReportShapes ==
  ASSUME IInv, Shaped, NEW events \in Seq(EVENT), Report(events)
  PROVE  QueueShaped /\ link' = link /\ quiet' \in BOOLEAN
<1>1. CASE queue' = queue
  BY <1>1 DEF Report, Shaped, QueueShaped
<1>2. CASE queue' = queue \o events
  <2>1. Len(queue) + Len(events) <= MaxQueue
    BY DEF Report
  <2>2. queue' \in Seq(EVENT) /\ Len(queue') <= MaxQueue
    BY <1>2, <2>1, ConcatProperties DEF Shaped
  <2>3. phone'.timer \in BOOLEAN
    BY DEF Report, IInv, Good, PHONE
  <2>4. QED
    BY <2>2, <2>3, FewEvents DEF QueueShaped, Report, Shaped
<1>3. QED
  BY <1>1, <1>2 DEF Report

LEMMA UserShapes ==
  ASSUME IInv, Shaped, User
  PROVE  Shaped'
<1>1. ASSUME NEW type \in Events
      PROVE  Event(type) \in EVENT
  BY DEF Event, EVENT, Places
<1>2. ASSUME NEW events \in Seq(EVENT), Report(events), handset' \in {"on", "off"}
      PROVE  Shaped'
  BY <1>2, ReportShapes DEF Report, Shaped, QueueShaped
<1>3. {"HOOK_OFF", "HOOK_ON", "HOOK_FLASH", "DTMF_START"} \subseteq Events
  BY DEF Events
<1>4. CASE LiftHandset
  <2>1. <<Event("HOOK_OFF")>> \in Seq(EVENT)
    BY <1>1, <1>3, OneElement
  <2>2. QED
    BY <1>2, <1>4, <2>1 DEF LiftHandset
<1>5. CASE HangUp
  <2>1. <<Event("HOOK_ON")>> \in Seq(EVENT)
    BY <1>1, <1>3, OneElement
  <2>2. QED
    BY <1>2, <1>5, <2>1 DEF HangUp
<1>6. CASE FlashHook
  <2>1. <<Event("HOOK_FLASH")>> \in Seq(EVENT)
    BY <1>1, <1>3, OneElement
  <2>2. QED
    BY <1>2, <1>6, <2>1 DEF FlashHook, OffTheHook
<1>7. CASE \E key \in Keys : PressKey(key)
  <2>1. PICK key \in Keys : PressKey(key)
    BY <1>7
  <2>2. DtmfEnd(ConvertDtmfDigit(key)) \in EVENT
    <3>1. dtmfDigitMap[key] \in DtmfDigits \union {"none"}
      BY DEF Shaped
    <3>2. "DTMF_END" \in Events
      BY DEF Events
    <3>3. QED
      BY <3>1, <3>2 DEF DtmfEnd, ConvertDtmfDigit, EVENT, Places
  <2>3. <<Event("DTMF_START"), DtmfEnd(ConvertDtmfDigit(key))>> \in Seq(EVENT)
    <3>1. PICK a, b : a = Event("DTMF_START") /\ b = DtmfEnd(ConvertDtmfDigit(key))
      OBVIOUS
    <3>2. a \in EVENT /\ b \in EVENT
      BY <1>1, <1>3, <2>2, <3>1
    <3>3. <<a, b>> \in Seq(EVENT)
      BY <3>2
    <3>4. QED
      BY <3>1, <3>3
  <2>4. QED
    BY <1>2, <2>1, <2>3 DEF PressKey, OffTheHook
<1>8. QED
  BY <1>4, <1>5, <1>6, <1>7 DEF User

LEMMA PutShapes ==
  ASSUME IInv, Shaped, NEW e \in EVENT, e.type # "HOOK_FLASH"
  PROVE  /\ Append(queue, e) \in Seq(EVENT)
         /\ Len(queue) < MaxQueue
            => Weight(Append(queue, e), phone.timer) <= 2 * MaxQueue + 1
         /\ phone.timer => Weight(Append(queue, e), FALSE) <= 2 * MaxQueue + 1
<1>1. phone.timer \in BOOLEAN
  BY DEF IInv, Good, PHONE
<1>2. /\ Append(queue, e) \in Seq(EVENT)
      /\ Weight(Append(queue, e), phone.timer) = Weight(queue, phone.timer) + 1
      /\ Weight(Append(queue, e), FALSE) = Weight(queue, FALSE) + 1
  BY <1>1, PutWeighs DEF Shaped
<1>3. Len(Append(queue, e)) = Len(queue) + 1 /\ Len(queue) \in Nat /\ MaxQueue \in Nat
  BY PhoneAssumption DEF Shaped
<1>4. phone.timer => Weight(queue, phone.timer) = Weight(queue, FALSE) + 1
  BY FlashesCount DEF Weight, Shaped
<1>5. phone.timer => Weight(Append(queue, e), FALSE) <= 2 * MaxQueue + 1
  BY <1>2, <1>4 DEF Shaped
<1>6. Len(queue) < MaxQueue => Weight(Append(queue, e), phone.timer) <= 2 * MaxQueue + 1
  <2>1. PICK q : q = Append(queue, e)
    OBVIOUS
  <2>2. q \in Seq(EVENT) /\ (Len(queue) < MaxQueue => Len(q) <= MaxQueue)
    BY <1>2, <1>3, <2>1
  <2>3. Len(q) <= MaxQueue => Weight(q, phone.timer) <= 2 * MaxQueue + 1
    BY <1>1, <2>2, FewEvents
  <2>4. QED
    BY <2>1, <2>2, <2>3
<1>7. QED
  BY <1>2, <1>5, <1>6

LEMMA FarEndShapes ==
  ASSUME IInv, Shaped, NEW type \in CallEvents, FarEnd(type)
  PROVE  Shaped'
<1>1. Event(type) \in EVENT /\ Event(type).type # "HOOK_FLASH"
  BY PhoneAssumption DEF Event, EVENT, Events, Places
<1>2. QED
  BY <1>1, PutShapes DEF FarEnd, Shaped

LEMMA TimeoutShapes ==
  ASSUME IInv, Shaped, DigitTimeout
  PROVE  Shaped'
<1>1. PICK type \in {"NUM_DONE", "NUM_ERR"} : queue' = Append(queue, Event(type))
  BY DEF DigitTimeout
<1>2. Event(type) \in EVENT /\ Event(type).type # "HOOK_FLASH"
  BY DEF Event, EVENT, Events, Places
<1>3. phone.timer /\ phone'.timer = FALSE
  BY DEF DigitTimeout, IInv, Good, PHONE
<1>4. QED
  BY <1>1, <1>2, <1>3, PutShapes DEF DigitTimeout, Shaped

-----------------------------------------------------------------------------
(* A command leaves the link in its shape, wherever it comes in.           *)
LEMMA CommandsBehave ==
  ASSUME table \in TABLE, NEW by \in Interruptions, NEW s \in LINK
  PROVE  Obey(s, by) \in LINK
<1>. DEFINE cmd == by.command.cmd
            words == by.command.words
            index == vt_getActionIdxByStr(table, FirstText(words))
            o == Obey(s, by)
<1>1. /\ by.command \in Typed /\ by.server \in {"same", "anew", "none"} /\ by.junk \in Junk
  BY DEF Interruptions
<1>2. /\ words \in Seq(ARGUMENT) /\ Rest(words) \in Seq(ARGUMENT)
      /\ Len(cmd) = 2 /\ cmd[1] = "send" => cmd[2] \in SendSubcmds
  BY <1>1, TypedShaped
<1>3. by.junk \in Seq(ARGUMENT)
  BY <1>1, JunkIsWords
<1>4. index \in Nat
  BY NamesFound
<1>5. Reached(s, by) \in LINK
  <2>1. /\ [s EXCEPT !.sock = "open"] \in LINK
        /\ [s EXCEPT !.sock = "open", !.server = FreshServer] \in LINK
        /\ ConnectFailed(s) \in LINK
    BY LinkUpdates, ConnectionsShaped DEF Connected
  <2>2. ASSUME NEW t \in LINK
        PROVE  Whole(t) \in LINK
    <3>1. Writes \in Int
      BY DEF Writes
    <3>2. QED
      BY <3>1, LinkUpdates, Zenon DEF Whole
  <2>3. QED
    BY <1>1, <2>1, <2>2 DEF Reached
<1>6. InitServerAction(Reached(s, by), Rest(words)) \in LINK
  BY <1>5, ServerInitialised
<1>7. [s EXCEPT !.sock = "none"] \in LINK
  BY ConnectionsShaped
<1>. HIDE DEF index
<1>8. RunAction(table, index, s, Rest(words), by.junk) \in LINK
  BY <1>2, <1>3, <1>4, ActionRuns
<1>9. Len(cmd) = 2 /\ Head(cmd) = "send" => SendCommand(s, cmd[2], words) \in LINK
  <2>1. Head(cmd) = cmd[1]
    OBVIOUS
  <2>2. QED
    BY <1>2, <2>1, CommandSent
<1>. HIDE DEF cmd, words
<1>10. o = CASE Opens(by.command) ->
                  IF cmd = <<"connect">> \/ by.server = "none" THEN Reached(s, by)
                  ELSE InitServerAction(Reached(s, by), Rest(words))
             [] cmd = <<"action">> /\ FirstText(words) # "InitServer" ->
                  RunAction(table, index, s, Rest(words), by.junk)
             [] Len(cmd) = 2 /\ Head(cmd) = "send" -> SendCommand(s, cmd[2], words)
             [] cmd = <<"shutdown">> -> [s EXCEPT !.sock = "none"]
             [] OTHER -> s
  BY DEF Obey, cmd, words, index
<1>. HIDE DEF o
<1>11. o \in LINK
  BY <1>5, <1>6, <1>7, <1>8, <1>9, <1>10
<1>12. QED
  BY <1>11 DEF o

(* Handling an event, and the voice of a talk that begins with it.         *)
(* What is left to do is counted; who interferes has less left after it.   *)
Counted == left \in [{"user", "far", "operator"} -> Nat]

LEMMA ProcessStep ==
  ASSUME IInv, Shaped, Process
  PROVE  /\ Shaped'
         /\ (/\ phone.fxsState # "TALKING" /\ phone'.fxsState = "TALKING"
             /\ ~ link'.lost /\ TalkStartsVoice /\ left' = left /\ Counted)
            => link'.openChannel[endpt] \in link'.server.rtp
<1>1. PICK x \in Outcomes(Head(queue)), s \in Breaks(link), by \in {Alone} \union Interruptions :
        /\ queue # << >>
        /\ phone' = ProcessEvent(s, Head(queue), x, by).phone
        /\ queue' = ProcessEvent(s, Head(queue), x, by).queue
        /\ link' = Settled(ProcessEvent(s, Head(queue), x, by).link)
        /\ quiet' = (/\ quiet /\ x.session /\ by = Alone /\ link.sock = "open"
                     /\ ProcessEvent(s, Head(queue), x, by).link.sock = "open")
        /\ left' = IF by = Alone THEN left ELSE [left EXCEPT !["operator"] = @ - 1]
        /\ UNCHANGED <<handset, dtmfDigitMap, table, file>>
  BY DEF Process
<1>b. Behaves(by)
  BY CommandsBehave DEF Behaves, Shaped
<1>l. left' = left /\ Counted => by = Alone
  BY <1>1 DEF Counted
<1>2. x.junk \in Seq(ARGUMENT)
  BY ChoicesShaped
<1>3. s \in LINK
  BY BreaksShaped DEF Shaped
<1>4. PICK n : n = ProcessEvent(s, Head(queue), x, by)
  OBVIOUS
<1>5. /\ Sound(n) /\ Weight(n.queue, n.phone.timer) <= 2 * MaxQueue + 1
      /\ (/\ by = Alone /\ TalkStartsVoice /\ phone.fxsState # "TALKING" /\ n.phone.fxsState = "TALKING"
          /\ ~ n.link.lost)
         => n.link.openChannel[endpt] \in n.link.server.rtp
  BY <1>1, <1>2, <1>3, <1>4, <1>b, ProcessShapes
<1>6. /\ link' = Settled(n.link) /\ link' \in LINK /\ link'.openChannel = n.link.openChannel
      /\ link'.server = n.link.server /\ link'.lost = n.link.lost
  BY <1>1, <1>4, <1>5, SettledShaped DEF Sound
<1>7. phone' = n.phone /\ queue' = n.queue
  BY <1>1, <1>4
<1>8. quiet' \in BOOLEAN
  <2>1. quiet' = (quiet /\ x.session /\ by = Alone /\ link.sock = "open" /\ n.link.sock = "open")
    BY <1>1, <1>4
  <2>2. QED
    BY <2>1, Zenon
<1>9. Shaped'
  BY <1>1, <1>5, <1>6, <1>7, <1>8 DEF Shaped, Sound
<1>10. QED
  BY <1>5, <1>6, <1>7, <1>9, <1>l

LEMMA OperatorPhone ==
  ASSUME Operator
  PROVE  phone' = phone
  BY DEF Operator, SendByHand, ActionByHand, Connect, ConnectFails, InitServer, Shutdown, Reaction,
         Reload, DropEvents, CommandDone

LEMMA DoneShapes ==
  ASSUME IInv, Shaped, NEW after \in LINK, CommandDone(after)
  PROVE  link' \in LINK /\ handset' = handset /\ phone' = phone
  BY SettledShaped DEF CommandDone

(* What a command leaves alone keeps its shape.                            *)
Kept(maps, tables) ==
  /\ queue' = queue \/ queue' = << >>
  /\ maps => UNCHANGED dtmfDigitMap
  /\ tables => UNCHANGED <<table, file>>

LEMMA CommandShapes ==
  ASSUME IInv, Shaped, NEW after \in LINK, CommandDone(after), quiet' \in BOOLEAN,
         NEW maps \in BOOLEAN, NEW tables \in BOOLEAN, Kept(maps, tables),
         maps \/ dtmfDigitMap' \in [Keys -> DtmfDigits \union {"none"}],
         tables \/ (table' \in TABLE /\ file' \in DOMAIN Files)
  PROVE  Shaped'
<1>1. link' \in LINK /\ handset' = handset /\ phone' = phone
  BY DoneShapes
<1>2. queue' \in Seq(EVENT) /\ Weight(queue', phone'.timer) <= 2 * MaxQueue + 1
  <2>1. phone.timer \in BOOLEAN
    BY DEF IInv, Good, PHONE
  <2>2. << >> \in Seq(EVENT) /\ Len(<< >>) <= MaxQueue
    BY PhoneAssumption
  <2>3. Weight(<< >>, phone.timer) <= 2 * MaxQueue + 1
    BY <2>1, <2>2, FewEvents
  <2>4. QED
    BY <1>1, <2>2, <2>3 DEF Shaped, Kept
<1>3. dtmfDigitMap' \in [Keys -> DtmfDigits \union {"none"}]
  BY DEF Kept, Shaped
<1>4. table' \in TABLE /\ file' \in DOMAIN Files
  BY DEF Kept, Shaped
<1>5. QED
  BY <1>1, <1>2, <1>3, <1>4 DEF Shaped

LEMMA SendShapes ==
  ASSUME IInv, Shaped, SendByHand
  PROVE  Shaped'
<1>1. PICK c \in Typed, s \in Breaks(link) :
        Len(c.cmd) = 2 /\ c.cmd[1] = "send" /\ CommandDone(SendCommand(s, c.cmd[2], c.words))
  BY DEF SendByHand
<1>2. s \in LINK
  BY BreaksShaped DEF Shaped
<1>3. SendCommand(s, c.cmd[2], c.words) \in LINK
  BY <1>1, <1>2, TypedShaped, CommandSent
<1>4. Kept(TRUE, TRUE) /\ quiet' \in BOOLEAN
  BY DEF SendByHand, Kept
<1>5. QED
  BY <1>1, <1>3, <1>4, CommandShapes

LEMMA ActionShapes ==
  ASSUME IInv, Shaped, ActionByHand
  PROVE  Shaped'
<1>1. PICK c \in Typed, s \in Breaks(link), junk \in Junk \union {<< >>} :
        CommandDone(RunAction(table, vt_getActionIdxByStr(table, FirstText(c.words)),
                              s, Rest(c.words), junk))
  <2>1. PICK c \in Typed : \E s \in Breaks(link), junk \in IF Rest(c.words) = << >> THEN Junk ELSE {<< >>} :
          CommandDone(RunAction(table, vt_getActionIdxByStr(table, FirstText(c.words)),
                                s, Rest(c.words), junk))
    BY DEF ActionByHand
  <2>2. (IF Rest(c.words) = << >> THEN Junk ELSE {<< >>}) \subseteq Junk \union {<< >>}
    OBVIOUS
  <2>3. QED
    BY <2>1, <2>2
<1>2. s \in LINK
  BY BreaksShaped DEF Shaped
<1>3. junk \in Seq(ARGUMENT)
  BY JunkIsWords
<1>4. PICK index : index = vt_getActionIdxByStr(table, FirstText(c.words))
  OBVIOUS
<1>5. index \in Nat
  BY <1>4, NamesFound DEF Shaped
<1>6. RunAction(table, index, s, Rest(c.words), junk) \in LINK
  BY <1>2, <1>3, <1>5, TypedShaped, ActionRuns DEF Shaped
<1>7. CommandDone(RunAction(table, index, s, Rest(c.words), junk))
  BY <1>1, <1>4
<1>8. Kept(TRUE, TRUE) /\ quiet' \in BOOLEAN
  BY DEF ActionByHand, Kept
<1>9. QED
  BY <1>6, <1>7, <1>8, CommandShapes

LEMMA ConnectShapes ==
  ASSUME IInv, Shaped, Connect \/ ConnectFails \/ Shutdown \/ DropEvents
  PROVE  Shaped'
<1>1. link \in LINK
  BY DEF Shaped
<1>2. quiet \in BOOLEAN
  BY DEF Shaped
<1>3. CASE Connect
  <2>1. PICK s \in Connected(link) : CommandDone(s)
    BY <1>3 DEF Connect
  <2>2. s \in LINK
    BY <1>1, ConnectionsShaped
  <2>3. quiet' \in BOOLEAN
    <3>1. quiet' = (quiet /\ link'.server = link.server /\ queue = << >>)
      BY <1>3 DEF Connect
    <3>2. QED
      BY <3>1, Zenon
  <2>a. Kept(TRUE, TRUE)
    BY <1>3 DEF Connect, Kept
  <2>4. QED
    BY <2>1, <2>2, <2>3, <2>a, CommandShapes
<1>4. CASE ConnectFails
  <2>1. PICK s \in {link, ConnectFailed(link)} : CommandDone(s)
    BY <1>4, Zenon DEF ConnectFails
  <2>2. s \in LINK
    BY <1>1, ConnectionsShaped
  <2>a. Kept(TRUE, TRUE) /\ quiet' = quiet
    BY <1>4 DEF ConnectFails, Kept
  <2>b. quiet' \in BOOLEAN
    BY <1>2, <2>a, Zenon
  <2>3. QED
    BY <2>1, <2>2, <2>a, <2>b, CommandShapes
<1>5. CASE Shutdown
  <2>1. PICK s : s = [link EXCEPT !.sock = "none"]
    OBVIOUS
  <2>2. s \in LINK
    BY <1>1, <2>1, ConnectionsShaped
  <2>3. CommandDone(s)
    BY <1>5, <2>1 DEF Shutdown
  <2>a. Kept(TRUE, TRUE) /\ quiet' = quiet
    BY <1>5 DEF Shutdown, Kept
  <2>b. quiet' \in BOOLEAN
    BY <1>2, <2>a, Zenon
  <2>4. QED
    BY <2>2, <2>3, <2>a, <2>b, CommandShapes
<1>6. CASE DropEvents
  <2>1. CommandDone(link)
    BY <1>6 DEF DropEvents
  <2>2. quiet' \in BOOLEAN
    <3>1. quiet' = (quiet /\ queue = << >>)
      BY <1>6 DEF DropEvents
    <3>2. QED
      BY <3>1, Zenon
  <2>a. Kept(TRUE, TRUE)
    BY <1>6 DEF DropEvents, Kept
  <2>3. QED
    BY <1>1, <2>1, <2>2, <2>a, CommandShapes
<1>7. QED
  BY <1>3, <1>4, <1>5, <1>6

LEMMA InitServerShapes ==
  ASSUME IInv, Shaped, InitServer
  PROVE  Shaped'
<1>1. PICK c \in Typed, s \in Connected(link) :
        \E t \in Breaks(s) : CommandDone(InitServerAction(t, Rest(c.words)))
  BY DEF InitServer
<1>2. PICK t \in Breaks(s) : CommandDone(InitServerAction(t, Rest(c.words)))
  BY <1>1
<1>3. s \in LINK
  BY ConnectionsShaped DEF Shaped
<1>4. InitServerAction(t, Rest(c.words)) \in LINK
  BY <1>3, BreaksShaped, ServerInitialised
<1>5. quiet' \in BOOLEAN
  <2>1. quiet' = (quiet /\ link'.server = link.server /\ link'.sock = "open" /\ queue = << >>)
    BY DEF InitServer
  <2>2. QED
    BY <2>1, Zenon
<1>6. Kept(TRUE, TRUE)
  BY DEF InitServer, Kept
<1>7. QED
  BY <1>2, <1>4, <1>5, <1>6, CommandShapes

LEMMA ReactionShapes ==
  ASSUME IInv, Shaped, Reaction
  PROVE  Shaped'
<1>1. PICK c \in Typed :
        /\ c.cmd = <<"reaction">>
        /\ table' = LoadAction(table, Files[NamedFile(c.words)])
        /\ file' = NamedFile(c.words)
        /\ quiet' = (quiet /\ (\/ NamedFile(c.words) = "vc_action"
                               \/ NamedFile(c.words) = file /\ NamedFile(c.words) = "missing"))
  BY Zenon DEF Reaction
<1>2. NamedFile(c.words) \in DOMAIN Files
  BY <1>1, NamesAssumption
<1>3. table' \in TABLE /\ file' \in DOMAIN Files
  BY <1>1, <1>2, TableLoaded DEF Shaped
<1>4. quiet' \in BOOLEAN
  BY <1>1, Zenon
<1>5. link \in LINK /\ CommandDone(link) /\ Kept(TRUE, FALSE)
  BY DEF Reaction, Shaped, Kept
<1>6. QED
  BY <1>3, <1>4, <1>5, CommandShapes

LEMMA ReloadShapes ==
  ASSUME IInv, Shaped, Reload
  PROVE  Shaped'
<1>1. PICK c \in Typed :
        /\ c.cmd = <<"reload">>
        /\ dtmfDigitMap' = InitConfig(dtmfDigitMap, Configs[NamedConfig(c.words)])
  BY DEF Reload
<1>2. NamedConfig(c.words) \in DOMAIN Configs
  BY <1>1, NamesAssumption
<1>3. dtmfDigitMap' \in [Keys -> DtmfDigits \union {"none"}]
  BY <1>1, <1>2, MapsShaped DEF Shaped
<1>4. link \in LINK /\ CommandDone(link) /\ Kept(FALSE, TRUE)
  BY DEF Reload, Shaped, Kept
<1>5. quiet' = quiet /\ quiet \in BOOLEAN
  BY DEF Reload, Shaped
<1>6. QED
  <2>1. quiet' \in BOOLEAN
    BY <1>5, Zenon
  <2>2. QED
    BY <1>3, <1>4, <2>1, CommandShapes

LEMMA NextShapes == IInv /\ Shaped /\ [Next]_vars => Shaped'
<1>. SUFFICES ASSUME IInv, Shaped, [Next]_vars PROVE Shaped'
  OBVIOUS
<1>1. CASE User
  BY <1>1, UserShapes
<1>2. CASE \E type \in CallEvents : FarEnd(type)
  BY <1>2, FarEndShapes
<1>3. CASE Process
  BY <1>3, ProcessStep
<1>4. CASE DigitTimeout
  BY <1>4, TimeoutShapes
<1>5. CASE Operator
  BY <1>5, SendShapes, ActionShapes, ConnectShapes, InitServerShapes, ReactionShapes, ReloadShapes
  DEF Operator
<1>6. CASE UNCHANGED vars
  BY <1>6 DEF vars, Shaped
<1>7. QED
  BY <1>1, <1>2, <1>3, <1>4, <1>5, <1>6 DEF Next

-----------------------------------------------------------------------------
(* Link, table and queue keep their shapes, and the queue its weight.      *)
THEOREM ShapesKept == Spec => []Shaped
<1>1. Spec => []IInv
  BY Invariance
<1>2. QED
  BY <1>1, InitShapes, NextShapes, PTL DEF Spec

(* The telephone, its link and its rows keep their shapes, numberIndex     *)
(* stays within the buffer, and the queue below the bound that follows     *)
(* from its weight, although handlers put events themselves.               *)
THEOREM TypeCorrect == Spec => []TypeOK
<1>1. IInv /\ Shaped => TypeOK
  <2>. SUFFICES ASSUME IInv, Shaped PROVE TypeOK
    OBVIOUS
  <2>1. phone \in [fxsState : States \ {"MAX"}, number : [1 .. VT_INPUT_NUM_MAX -> Places],
                   numberIndex : 0 .. VT_INPUT_NUM_MAX, timer : BOOLEAN]
    BY DEF IInv, Good, PHONE, NewStates, Length
  <2>2. Len(typed) <= VT_INPUT_NUM_MAX
    BY DEF IInv, Good, Buffered, PHONE, Length
  <2>3. Len(queue) <= 2 * MaxQueue + 1
    <3>1. phone.timer \in BOOLEAN /\ MaxQueue \in Nat
      BY <2>1, PhoneAssumption
    <3>2. Len(queue) <= Weight(queue, phone.timer)
      BY <3>1, FlashesCount DEF Weight, Shaped
    <3>3. QED
      BY <3>1, <3>2, FlashesCount, WeightIsNumber DEF Shaped
  <2>4. /\ link.sock \in {"none", "open", "dead"} /\ link.dspStart \in BOOLEAN
        /\ link.openChannel \in [Endpts -> -1 .. MAX_CNX]
    BY DEF Shaped, LINK
  <2>5. \A r \in Rows : table.rows[r] \in Nat
    BY DEF Shaped, TABLE
  <2>6. QED
    BY <2>1, <2>2, <2>3, <2>4, <2>5 DEF TypeOK, Shaped
<1>2. QED
  BY <1>1, Invariance, ShapesKept, PTL

LEMMA LeftCounted == Spec => []Counted
<1>1. Init => Counted
  BY PhoneAssumption DEF Init, Counted
<1>2. Counted /\ [Next]_vars => Counted'
  <2>. SUFFICES ASSUME Counted, [Next]_vars PROVE Counted'
    OBVIOUS
  <2>1. ASSUME NEW who \in {"user", "far", "operator"}, left[who] > 0,
               left' = [left EXCEPT ![who] = @ - 1]
        PROVE  Counted'
    BY <2>1 DEF Counted
  <2>2. CASE User
    BY <2>1, <2>2
    DEF User, LiftHandset, HangUp, PressKey, FlashHook, OffTheHook, Report, Spend
  <2>3. CASE \E type \in CallEvents : FarEnd(type)
    BY <2>1, <2>3 DEF FarEnd, Spend
  <2>4. CASE Process
    <3>1. PICK by \in {Alone} \union (IF left["operator"] > 0 THEN Interruptions ELSE {}) :
            left' = IF by = Alone THEN left ELSE [left EXCEPT !["operator"] = @ - 1]
      BY <2>4 DEF Process
    <3>2. CASE by = Alone
      BY <3>1, <3>2 DEF Counted
    <3>3. CASE by # Alone
      BY <2>1, <3>1, <3>3
    <3>4. QED
      BY <3>2, <3>3
  <2>5. CASE Operator
    BY <2>1, <2>5
    DEF Operator, SendByHand, ActionByHand, Connect, ConnectFails, InitServer, Shutdown, Reaction,
        Reload, DropEvents, Begun, Spend
  <2>6. CASE DigitTimeout \/ UNCHANGED vars
    BY <2>6 DEF DigitTimeout, vars, Counted
  <2>7. QED
    BY <2>2, <2>3, <2>4, <2>5, <2>6 DEF Next
<1>3. QED
  BY <1>1, <1>2, PTL DEF Spec

(* Nobody begins to talk without his voice channel started (the actions    *)
(* AcceptCall and Talking, which end with VOIP_RTP_ACTIVE), whichever      *)
(* writes fail, whatever the operator did before and wherever the channel  *)
(* is, unless the operator gives a command between that action and the new *)
(* state (fsmGo of vt_fsm.c, which no lock protects).                      *)
THEOREM TalkStarts == Spec => TalkHasRtp
<1>1. IInv /\ Shaped /\ Counted /\ [Next]_vars =>
        [(/\ phone.fxsState # "TALKING" /\ phone'.fxsState = "TALKING"
          /\ ~ link'.lost /\ TalkStartsVoice /\ left' = left)
         => link'.openChannel[endpt] \in link'.server.rtp]_vars
  <2>. SUFFICES ASSUME IInv, Shaped, Counted, Next, phone.fxsState # "TALKING",
                       phone'.fxsState = "TALKING", ~ link'.lost, TalkStartsVoice, left' = left
                PROVE  link'.openChannel[endpt] \in link'.server.rtp
    OBVIOUS
  <2>1. CASE Process
    BY <2>1, ProcessStep
  <2>2. phone'.fxsState # phone.fxsState
    OBVIOUS
  <2>3. CASE DigitTimeout
    BY <2>2, <2>3 DEF DigitTimeout, IInv, Good, PHONE
  <2>4. CASE Operator
    BY <2>2, <2>4, OperatorPhone
  <2>5. CASE User \/ \E type \in CallEvents : FarEnd(type)
    BY <2>2, <2>5
    DEF User, LiftHandset, HangUp, PressKey, FlashHook, OffTheHook, Report, FarEnd
  <2>6. QED
    BY <2>1, <2>3, <2>4, <2>5 DEF Next
<1>2. QED
  BY <1>1, Invariance, ShapesKept, LeftCounted, PTL DEF Spec, TalkHasRtp

-----------------------------------------------------------------------------
(* What an event runs: the action of a row, or that of the first row of    *)
(* the dynamic table.  A place is one or the other.                        *)
PLACE == [row : Nat, event : Events, cur : States]
IsPlace(p) ==
  \/ p.row \in Rows /\ p.event = FsmCtxs[p.row].event /\ p.cur = FsmCtxs[p.row].cur
  \/ p.row = 0 /\ p.cur # "MAX" /\ ExactRow(p.event, p.cur) = {}

Hits(p, event, state) ==
  event = p.event /\ (state = p.cur \/ (p.row # 0 /\ state = "MAX"))

InFront(dynamic, event, state, k) ==
  \E d \in DOMAIN dynamic :
    /\ dynamic[d].event = event /\ dynamic[d].cur = state /\ dynamic[d].index = k
    /\ \A c \in DOMAIN dynamic : dynamic[c].event = event /\ dynamic[c].cur = state => d <= c

Runs(t, p, k) ==
  IF p.row # 0 THEN t.rows[p.row] = k ELSE InFront(t.dynamic, p.event, p.cur, k)

LEMMA RowsDiffer ==
  ASSUME NEW q \in Rows, NEW r \in Rows, FsmCtxs[q].event = FsmCtxs[r].event,
         FsmCtxs[q].cur = FsmCtxs[r].cur
  PROVE  q = r
<1>1. q \in 1 .. 19 /\ r \in 1 .. 19
  BY DEF Rows, FsmCtxs
<1>2. QED
  BY <1>1 DEF FsmCtxs, Row

LEMMA ExactRowIs ==
  ASSUME NEW event, NEW state, NEW r \in Rows
  PROVE  /\ r \in ExactRow(event, state) <=> FsmCtxs[r].event = event /\ FsmCtxs[r].cur = state
         /\ 0 \notin Rows
<1>. DEFINE T == {q \in Rows : FsmCtxs[q].event = event /\ FsmCtxs[q].cur = state}
<1>1. T \subseteq Nat
  BY RowsKnown
<1>2. ExactRow(event, state) = FirstOf(T)
  BY DEF ExactRow
<1>3. ASSUME r \in ExactRow(event, state)
      PROVE  FsmCtxs[r].event = event /\ FsmCtxs[r].cur = state
  <2>. HIDE DEF T
  <2>1. r \in T
    BY <1>1, <1>2, <1>3, FirstIn
  <2>2. QED
    BY <2>1 DEF T
<1>4. ASSUME FsmCtxs[r].event = event, FsmCtxs[r].cur = state
      PROVE  r \in ExactRow(event, state)
  <2>1. r \in T
    BY <1>4
  <2>2. PICK q : q = CHOOSE i \in T : \A j \in T : i <= j
    OBVIOUS
  <2>3. FirstOf(T) = {q}
    <3>. HIDE DEF T
    <3>1. QED
      BY <2>1, <2>2, Zenon DEF FirstOf
  <2>4. q \in T
    <3>1. q \in FirstOf(T)
      BY <2>3
    <3>. HIDE DEF T
    <3>2. QED
      BY <1>1, <3>1, FirstIn
  <2>5. q = r
    BY <1>4, <2>4, RowsDiffer
  <2>6. QED
    BY <1>2, <2>3, <2>5
<1>5. 0 \notin Rows
  <2>1. Rows = 1 .. 19
    BY DEF Rows, FsmCtxs
  <2>2. QED
    BY <2>1
<1>6. QED
  BY <1>3, <1>4, <1>5

LEMMA NewestInFront ==
  ASSUME NEW dynamic \in Seq(DYNAMIC), NEW e \in DYNAMIC, NEW event, NEW state, NEW k
  PROVE  LET n == <<e>> \o dynamic
         IN /\ e.event = event /\ e.cur = state => InFront(n, event, state, e.index)
            /\ ~ (e.event = event /\ e.cur = state) /\ InFront(dynamic, event, state, k)
                 => InFront(n, event, state, k)
<1>. DEFINE n == <<e>> \o dynamic
<1>1. <<e>> \in Seq(DYNAMIC) /\ Len(<<e>>) = 1 /\ <<e>>[1] = e
  BY OneElement
<1>2. /\ Len(dynamic) \in Nat /\ DOMAIN dynamic = 1 .. Len(dynamic)
      /\ n \in Seq(DYNAMIC) /\ Len(n) = 1 + Len(dynamic) /\ DOMAIN n = 1 .. Len(n)
  BY <1>1, ConcatProperties
<1>3. n[1] = e
  BY <1>1, <1>2, ConcatProperties
<1>4. \A i \in DOMAIN dynamic : n[i + 1] = dynamic[i]
  <2>1. ASSUME NEW i \in DOMAIN dynamic
        PROVE  n[i + 1] = dynamic[i]
    <3>1. i + 1 \in 1 .. Len(<<e>>) + Len(dynamic) /\ i + 1 > Len(<<e>>)
      BY <1>1, <1>2
    <3>2. n[i + 1] = dynamic[i + 1 - Len(<<e>>)]
      BY <1>1, <3>1, ConcatProperties
    <3>3. i + 1 - Len(<<e>>) = i
      BY <1>1, <1>2
    <3>4. QED
      BY <3>2, <3>3
  <2>2. QED
    BY <2>1
<1>. HIDE DEF n
<1>5. ASSUME e.event = event, e.cur = state
      PROVE  InFront(n, event, state, e.index)
  <2>1. 1 \in DOMAIN n /\ \A c \in DOMAIN n : 1 <= c
    BY <1>2
  <2>2. QED
    BY <1>3, <1>5, <2>1 DEF InFront
<1>6. ASSUME ~ (e.event = event /\ e.cur = state), InFront(dynamic, event, state, k)
      PROVE  InFront(n, event, state, k)
  <2>1. PICK d \in DOMAIN dynamic :
          /\ dynamic[d].event = event /\ dynamic[d].cur = state /\ dynamic[d].index = k
          /\ \A c \in DOMAIN dynamic :
               dynamic[c].event = event /\ dynamic[c].cur = state => d <= c
    BY <1>6 DEF InFront
  <2>2. d + 1 \in DOMAIN n /\ n[d + 1] = dynamic[d]
    BY <1>2, <1>4
  <2>3. ASSUME NEW c \in DOMAIN n, n[c].event = event, n[c].cur = state
        PROVE  d + 1 <= c
    <3>1. c # 1
      BY <1>3, <1>6, <2>3
    <3>2. c - 1 \in DOMAIN dynamic /\ c = (c - 1) + 1
      BY <1>2, <3>1
    <3>3. n[c] = dynamic[c - 1]
      BY <1>4, <3>2
    <3>4. d <= c - 1
      BY <2>1, <2>3, <3>2, <3>3
    <3>5. QED
      BY <1>2, <3>2, <3>4
  <2>4. QED
    BY <2>1, <2>2, <2>3 DEF InFront
<1>7. QED
  BY <1>5, <1>6 DEF n

-----------------------------------------------------------------------------
LEMMA PairRuns ==
  ASSUME NEW t \in TABLE, NEW event \in Events, NEW state \in States, NEW index \in Nat,
         NEW p, IsPlace(p), NEW k
  PROVE  LET n == RegisterAction(t, event, state, index)
         IN /\ Hits(p, event, state) => Runs(n, p, index)
            /\ ~ Hits(p, event, state) /\ Runs(t, p, k) => Runs(n, p, k)
<1>. DEFINE n == RegisterAction(t, event, state, index)
<1>1. CASE state = "MAX"
  <2>1. PICK rows : rows = [r \in Rows |-> IF FsmCtxs[r].event = event THEN index ELSE t.rows[r]]
    OBVIOUS
  <2>2. n = [t EXCEPT !.rows = rows]
    BY <1>1, <2>1 DEF RegisterAction, UpdateActionIdxByEvent, TABLE
  <2>. HIDE DEF n
  <2>3. n.rows = rows /\ n.dynamic = t.dynamic
    BY <2>2 DEF TABLE
  <2>4. CASE p.row \in Rows /\ p.event = FsmCtxs[p.row].event
    <3>1. p.row # 0
      BY <2>4, ExactRowIs
    <3>2. Hits(p, event, state) <=> event = p.event
      BY <1>1, <3>1 DEF Hits
    <3>3. n.rows[p.row] = IF p.event = event THEN index ELSE t.rows[p.row]
      BY <2>1, <2>3, <2>4
    <3>4. QED
      BY <3>1, <3>2, <3>3 DEF Runs, n
  <2>5. CASE p.row = 0 /\ p.cur # "MAX"
    BY <1>1, <2>3, <2>5 DEF Hits, Runs, n
  <2>6. QED
    BY <2>4, <2>5 DEF IsPlace
<1>2. CASE state # "MAX" /\ ExactRow(event, state) # {}
  <2>1. PICK rows : rows = [r \in Rows |-> IF r \in ExactRow(event, state) THEN index ELSE t.rows[r]]
    OBVIOUS
  <2>2. n = [t EXCEPT !.rows = rows]
    BY <1>2, <2>1 DEF RegisterAction, TABLE
  <2>. HIDE DEF n
  <2>3. n.rows = rows /\ n.dynamic = t.dynamic
    BY <2>2 DEF TABLE
  <2>4. CASE p.row \in Rows /\ p.event = FsmCtxs[p.row].event /\ p.cur = FsmCtxs[p.row].cur
    <3>1. p.row # 0
      BY <2>4, ExactRowIs
    <3>2. p.row \in ExactRow(event, state) <=> p.event = event /\ p.cur = state
      BY <2>4, ExactRowIs
    <3>3. Hits(p, event, state) <=> p.row \in ExactRow(event, state)
      BY <1>2, <3>1, <3>2 DEF Hits
    <3>4. n.rows[p.row] = IF p.row \in ExactRow(event, state) THEN index ELSE t.rows[p.row]
      BY <2>1, <2>3, <2>4
    <3>5. QED
      BY <3>1, <3>3, <3>4 DEF Runs, n
  <2>5. CASE p.row = 0 /\ p.cur # "MAX" /\ ExactRow(p.event, p.cur) = {}
    <3>1. ~ Hits(p, event, state)
      BY <1>2, <2>5 DEF Hits
    <3>2. QED
      BY <2>3, <2>5, <3>1 DEF Runs, n
  <2>6. QED
    BY <2>4, <2>5 DEF IsPlace
<1>3. CASE state # "MAX" /\ ExactRow(event, state) = {}
  <2>1. PICK e : e = DynamicRow(event, state, index)
    OBVIOUS
  <2>2. e \in DYNAMIC /\ e.event = event /\ e.cur = state /\ e.index = index
    BY <2>1 DEF DynamicRow, DYNAMIC
  <2>3. n = [t EXCEPT !.dynamic = <<e>> \o t.dynamic]
    BY <1>3, <2>1 DEF RegisterAction, TABLE
  <2>. HIDE DEF n
  <2>4. n.rows = t.rows /\ n.dynamic = <<e>> \o t.dynamic /\ t.dynamic \in Seq(DYNAMIC)
    BY <2>3 DEF TABLE
  <2>5. CASE p.row \in Rows /\ p.event = FsmCtxs[p.row].event /\ p.cur = FsmCtxs[p.row].cur
    <3>1. p.row # 0
      BY <2>5, ExactRowIs
    <3>2. ~ (p.event = event /\ p.cur = state)
      BY <1>3, <2>5, ExactRowIs
    <3>3. ~ Hits(p, event, state)
      BY <1>3, <3>2 DEF Hits
    <3>4. QED
      BY <2>4, <3>1, <3>3 DEF Runs, n
  <2>6. CASE p.row = 0
    <3>1. Hits(p, event, state) <=> e.event = p.event /\ e.cur = p.cur
      BY <2>2, <2>6 DEF Hits
    <3>2. /\ e.event = p.event /\ e.cur = p.cur => InFront(n.dynamic, p.event, p.cur, index)
          /\ ~ (e.event = p.event /\ e.cur = p.cur) /\ InFront(t.dynamic, p.event, p.cur, k)
               => InFront(n.dynamic, p.event, p.cur, k)
      BY <2>2, <2>4, NewestInFront
    <3>3. QED
      BY <2>6, <3>1, <3>2 DEF Runs, n
  <2>7. QED
    BY <2>5, <2>6 DEF IsPlace
<1>4. QED
  BY <1>1, <1>2, <1>3

(* A section names a place when one of its pairs does.                     *)
PairHits(p, pair) == Hits(p, EventStrToInt(pair[1]), StateStrToInt(pair[2]))
SectionHits(p, section) == \E i \in DOMAIN section.pairs : PairHits(p, section.pairs[i])

LEMMA AttachedRuns ==
  ASSUME NEW t \in TABLE, NEW section \in SECTION, NEW index \in Nat, NEW p, IsPlace(p), NEW k
  PROVE  LET n == AttachActionToFSM(t, section, index)
         IN /\ SectionHits(p, section) => Runs(n, p, index)
            /\ ~ SectionHits(p, section) /\ Runs(t, p, k) => Runs(n, p, k)
<1>. DEFINE pairs == section.pairs
            m == Len(pairs)
<1>1. m \in Nat /\ DOMAIN pairs = 1 .. m
  BY DEF SECTION
<1>2. PICK f \in [0 .. m -> TABLE] :
        /\ f[0] = t
        /\ \A i \in 1 .. m : f[i] = AfterPair(f[i - 1], pairs[i], index)
        /\ AttachActionToFSM(t, section, index) = f[m]
  BY AttachSteps
<1>. HIDE DEF m, pairs
<1>3. ASSUME NEW i \in 1 .. m, NEW j
      PROVE  /\ PairHits(p, pairs[i]) => Runs(f[i], p, index)
             /\ ~ PairHits(p, pairs[i]) /\ Runs(f[i - 1], p, j) => Runs(f[i], p, j)
  <2>1. f[i - 1] \in TABLE
    BY <1>1, <1>2
  <2>2. f[i] = RegisterAction(f[i - 1], EventStrToInt(pairs[i][1]), StateStrToInt(pairs[i][2]), index)
    BY <1>2 DEF AfterPair
  <2>3. EventStrToInt(pairs[i][1]) \in Events /\ StateStrToInt(pairs[i][2]) \in States
    BY NamesKnown
  <2>4. QED
    BY <2>1, <2>2, <2>3, PairRuns DEF PairHits
<1>4. ASSUME SectionHits(p, section)
      PROVE  Runs(f[m], p, index)
  <2>. DEFINE T == {i \in Nat : i \in 1 .. m /\ (\E j \in 1 .. i : PairHits(p, pairs[j]))
                                  => Runs(f[i], p, index)}
  <2>1. 0 \in T
    OBVIOUS
  <2>2. ASSUME NEW i \in Nat, i \in T
        PROVE  i + 1 \in T
    <3>1. SUFFICES ASSUME i + 1 \in 1 .. m, NEW j \in 1 .. i + 1, PairHits(p, pairs[j])
                   PROVE  Runs(f[i + 1], p, index)
      OBVIOUS
    <3>2. CASE PairHits(p, pairs[i + 1])
      BY <1>3, <3>1, <3>2
    <3>3. CASE ~ PairHits(p, pairs[i + 1])
      <4>1. j \in 1 .. i /\ i \in 1 .. m
        <5>1. j # i + 1
          BY <3>1, <3>3
        <5>2. QED
          BY <1>1, <3>1, <5>1
      <4>2. Runs(f[i], p, index)
        BY <2>2, <3>1, <4>1
      <4>3. (i + 1) - 1 = i
        OBVIOUS
      <4>4. QED
        BY <1>3, <3>1, <3>3, <4>2, <4>3
    <3>4. QED
      BY <3>2, <3>3
  <2>. HIDE DEF T
  <2>3. m \in T
    BY <1>1, <2>1, <2>2, NumbersByInduction
  <2>4. PICK j \in DOMAIN section.pairs : PairHits(p, section.pairs[j])
    BY <1>4 DEF SectionHits
  <2>5. j \in 1 .. m /\ m \in 1 .. m /\ PairHits(p, pairs[j])
    BY <1>1, <2>4 DEF pairs
  <2>6. QED
    BY <2>3, <2>5 DEF T
<1>5. ASSUME ~ SectionHits(p, section), Runs(t, p, k)
      PROVE  Runs(f[m], p, k)
  <2>. DEFINE T == {i \in Nat : i \in 0 .. m => Runs(f[i], p, k)}
  <2>1. 0 \in T
    BY <1>2, <1>5
  <2>2. ASSUME NEW i \in Nat, i \in T
        PROVE  i + 1 \in T
    <3>1. SUFFICES ASSUME i + 1 \in 0 .. m
                   PROVE  Runs(f[i + 1], p, k)
      OBVIOUS
    <3>2. i + 1 \in 1 .. m /\ i \in 0 .. m /\ (i + 1) - 1 = i
      BY <1>1, <3>1
    <3>3. ~ PairHits(p, pairs[i + 1])
      BY <1>1, <1>5, <3>2 DEF SectionHits, pairs
    <3>4. Runs(f[i], p, k)
      BY <2>2, <3>2
    <3>5. QED
      BY <1>3, <3>2, <3>3, <3>4
  <2>. HIDE DEF T
  <2>3. m \in T
    BY <1>1, <2>1, <2>2, NumbersByInduction
  <2>4. QED
    BY <1>1, <2>3 DEF T
<1>6. QED
  BY <1>2, <1>4, <1>5

(* A whole section: only one with commands and without key is attached.    *)
Attaches(section) == section.cmds # << >> /\ section.key = << >>

LEMMA SectionRuns ==
  ASSUME NEW t \in TABLE, NEW section \in SECTION, NEW p, IsPlace(p), NEW k
  PROVE  LET n == ParseAction(t, section)
         IN /\ Attaches(section) /\ SectionHits(p, section) => Runs(n, p, Len(t.actions) + 1)
            /\ ~ (Attaches(section) /\ SectionHits(p, section)) /\ Runs(t, p, k) => Runs(n, p, k)
<1>. DEFINE m == Named(t, section, HandlersOf(section))
            z == Named(t, section, NoHandlers)
            index == Len(t.actions) + 1
<1>1. m \in TABLE /\ index \in Nat /\ m.rows = t.rows /\ m.dynamic = t.dynamic
  BY HandlersParsed, SectionNamed
<1>2. z.rows = t.rows /\ z.dynamic = t.dynamic
  BY SectionNamed
<1>3. ParseAction(t, section) =
        IF section.cmds = << >> THEN z
        ELSE IF section.key # << >> THEN RegisterKeyAction(m, section.key, index)
        ELSE AttachActionToFSM(m, section, index)
  BY SectionCases
<1>. HIDE DEF m, z, index
<1>4. /\ RegisterKeyAction(m, section.key, index).rows = m.rows
      /\ RegisterKeyAction(m, section.key, index).dynamic = m.dynamic
  BY <1>1 DEF RegisterKeyAction, TABLE
<1>5. ASSUME NEW u, u.rows = t.rows, u.dynamic = t.dynamic, Runs(t, p, k)
      PROVE  Runs(u, p, k)
  BY <1>5 DEF Runs
<1>6. CASE Attaches(section)
  <2>1. ParseAction(t, section) = AttachActionToFSM(m, section, index)
    BY <1>3, <1>6 DEF Attaches
  <2>2. Runs(t, p, k) => Runs(m, p, k)
    BY <1>1, <1>5
  <2>3. QED
    BY <1>1, <1>6, <2>1, <2>2, AttachedRuns DEF index
<1>7. CASE ~ Attaches(section)
  <2>1. ParseAction(t, section) \in {z, RegisterKeyAction(m, section.key, index)}
    BY <1>3, <1>7 DEF Attaches
  <2>2. PICK u : u = ParseAction(t, section)
    OBVIOUS
  <2>3. u.rows = t.rows /\ u.dynamic = t.dynamic
    BY <1>1, <1>2, <1>4, <2>1, <2>2
  <2>4. QED
    BY <1>5, <1>7, <2>2, <2>3
<1>8. QED
  BY <1>6, <1>7

-----------------------------------------------------------------------------
(* The sections of a file that name a place, and the last of them.         *)
Names(f, p) == {i \in Attached(f) : SectionHits(p, Sections(f)[i])}

LEMMA LoadRuns ==
  ASSUME NEW t \in TABLE, NEW f \in DOMAIN Files, Files[f].loads, NEW p, IsPlace(p),
         NEW k \in Names(f, p), \A j \in Names(f, p) : j <= k
  PROVE  Runs(LoadAction(t, Files[f]), p, k)
<1>. DEFINE n == Len(Sections(f))
<1>1. /\ Sections(f) \in Seq(SECTION) /\ n \in Nat /\ DOMAIN Sections(f) = 1 .. n
      /\ \A i \in 1 .. n : Sections(f)[i] \in SECTION
  BY FilesAssumption DEF Sections
<1>2. PICK w \in [0 .. n -> TABLE] :
        /\ w[0] = Emptied(t)
        /\ \A i \in 1 .. n : w[i] = ParseAction(w[i - 1], Sections(f)[i])
        /\ LoadAction(t, Files[f]) = w[n]
  BY LoadSteps
<1>. HIDE DEF n
<1>3. \A i \in 1 .. n : i - 1 \in 0 .. n /\ w[i - 1] \in TABLE
  BY <1>1, <1>2
<1>4. \A i \in 0 .. n : Len(w[i].actions) = i
  <2>. DEFINE T == {i \in Nat : i \in 0 .. n => Len(w[i].actions) = i}
  <2>1. 0 \in T
    BY <1>2, TableEmptied
  <2>2. ASSUME NEW i \in Nat, i \in T
        PROVE  i + 1 \in T
    <3>1. SUFFICES ASSUME i + 1 \in 0 .. n PROVE Len(w[i + 1].actions) = i + 1
      OBVIOUS
    <3>2. i + 1 \in 1 .. n /\ (i + 1) - 1 = i /\ i \in 0 .. n
      BY <1>1, <3>1
    <3>3. w[i + 1] = ParseAction(w[i], Sections(f)[i + 1]) /\ w[i] \in TABLE
      BY <1>2, <3>2
    <3>4. Len(w[i + 1].actions) = Len(w[i].actions) + 1
      BY <1>1, <3>2, <3>3, SectionParsed
    <3>5. QED
      BY <2>2, <3>2, <3>4
  <2>. HIDE DEF T
  <2>3. \A i \in Nat : i \in T
    BY <2>1, <2>2, NumbersByInduction
  <2>4. QED
    BY <1>1, <2>3 DEF T
<1>5. ASSUME NEW i \in 1 .. n, NEW j
      PROVE  /\ i \in Names(f, p) => Runs(w[i], p, i)
             /\ i \notin Names(f, p) /\ Runs(w[i - 1], p, j) => Runs(w[i], p, j)
  <2>1. w[i] = ParseAction(w[i - 1], Sections(f)[i]) /\ w[i - 1] \in TABLE
    BY <1>2, <1>3
  <2>2. Len(w[i - 1].actions) + 1 = i
    BY <1>1, <1>3, <1>4
  <2>3. i \in Names(f, p) <=> Attaches(Sections(f)[i]) /\ SectionHits(p, Sections(f)[i])
    BY <1>1 DEF Names, Attached, Attaches
  <2>4. QED
    BY <1>1, <2>1, <2>2, <2>3, SectionRuns
<1>6. k \in 1 .. n
  BY <1>1 DEF Names, Attached
<1>7. \A i \in Nat : i \in k .. n => Runs(w[i], p, k)
  <2>. DEFINE T == {i \in Nat : i \in k .. n => Runs(w[i], p, k)}
  <2>1. 0 \in T
    BY <1>6
  <2>2. ASSUME NEW i \in Nat, i \in T
        PROVE  i + 1 \in T
    <3>1. SUFFICES ASSUME i + 1 \in k .. n PROVE Runs(w[i + 1], p, k)
      OBVIOUS
    <3>2. i + 1 \in 1 .. n /\ (i + 1) - 1 = i
      BY <1>1, <1>6, <3>1
    <3>3. CASE i + 1 = k
      BY <1>5, <3>2, <3>3
    <3>4. CASE i + 1 # k
      <4>1. i \in k .. n /\ i + 1 > k
        BY <1>1, <1>6, <3>1, <3>4
      <4>2. i + 1 \notin Names(f, p)
        BY <1>6, <4>1
      <4>3. Runs(w[i], p, k)
        BY <2>2, <4>1
      <4>4. QED
        BY <1>5, <3>2, <4>2, <4>3
    <3>5. QED
      BY <3>3, <3>4
  <2>. HIDE DEF T
  <2>3. \A i \in Nat : i \in T
    BY <2>1, <2>2, NumbersByInduction
  <2>4. QED
    BY <2>3 DEF T
<1>8. Runs(w[n], p, k)
  BY <1>1, <1>6, <1>7
<1>9. QED
  BY <1>2, <1>8

LEMMA LastIs ==
  ASSUME NEW n \in Nat, NEW T \in SUBSET (1 .. n), T # {}
  PROVE  LastOf(T) \in T /\ \A j \in T : j <= LastOf(T)
<1>1. Max(T) \in T /\ \A j \in T : Max(T) >= j
  BY GreatestIn
<1>2. \E i \in T : \A j \in T : j <= i
  BY <1>1
<1>3. QED
  BY <1>2, Zenon DEF LastOf

(* RunsAsLoaded, of any table and file.                                    *)
AsLoaded(t, f) ==
  /\ \A r \in Rows :
       LET sections == Naming(f, FsmCtxs[r].event, {FsmCtxs[r].cur, "MAX"})
       IN sections # {} => t.rows[r] = LastOf(sections)
  /\ \A i \in Attached(f) : \A p \in DOMAIN Sections(f)[i].pairs :
       LET event == EventStrToInt(Sections(f)[i].pairs[p][1])
           state == StateStrToInt(Sections(f)[i].pairs[p][2])
           found == SearchDynamicFsmCtx(t, event, state)
       IN state # "MAX" /\ ExactRow(event, state) = {} =>
            \E d \in found : t.dynamic[d].index = LastOf(Naming(f, event, {state}))

LEMMA NamingIs ==
  ASSUME NEW f, NEW p, NEW states,
         p.row = 0 => states = {p.cur}, p.row # 0 => states = {p.cur, "MAX"}
  PROVE  Naming(f, p.event, states) = Names(f, p)
<1>1. ASSUME NEW pair
      PROVE  PairHits(p, pair) <=>
               EventStrToInt(pair[1]) = p.event /\ StateStrToInt(pair[2]) \in states
  BY DEF PairHits, Hits
<1>2. QED
  BY <1>1 DEF Naming, Names, SectionHits

LEMMA FrontFound ==
  ASSUME NEW t \in TABLE, NEW event, NEW state, NEW k, InFront(t.dynamic, event, state, k)
  PROVE  \E d \in SearchDynamicFsmCtx(t, event, state) : t.dynamic[d].index = k
<1>. DEFINE T == {d \in DOMAIN t.dynamic : t.dynamic[d].event = event /\ t.dynamic[d].cur = state}
<1>1. T \subseteq Nat
  <2>1. t.dynamic \in Seq(DYNAMIC)
    BY DEF TABLE
  <2>2. QED
    BY <2>1
<1>2. SearchDynamicFsmCtx(t, event, state) = FirstOf(T)
  BY DEF SearchDynamicFsmCtx
<1>3. PICK d \in T : t.dynamic[d].index = k /\ \A c \in T : d <= c
  BY DEF InFront
<1>. HIDE DEF T
<1>4. PICK q : q = CHOOSE i \in T : \A j \in T : i <= j
  OBVIOUS
<1>5. FirstOf(T) = {q}
  BY <1>3, <1>4, Zenon DEF FirstOf
<1>6. q \in T /\ \A j \in T : q <= j
  <2>1. q \in FirstOf(T)
    BY <1>5
  <2>2. QED
    BY <1>1, <2>1, FirstIn
<1>7. q = d
  BY <1>1, <1>3, <1>6
<1>8. QED
  BY <1>2, <1>3, <1>5, <1>7

LEMMA LoadedAsNamed ==
  ASSUME NEW t \in TABLE, NEW f \in DOMAIN Files, Files[f].loads
  PROVE  AsLoaded(LoadAction(t, Files[f]), f)
<1>. DEFINE u == LoadAction(t, Files[f])
            n == Len(Sections(f))
<1>1. n \in Nat /\ Attached(f) \subseteq 1 .. n
  <2>1. Sections(f) \in Seq(SECTION)
    BY FilesAssumption DEF Sections
  <2>2. QED
    BY <2>1 DEF Attached
<1>2. u \in TABLE
  BY TableLoaded
<1>3. ASSUME NEW p, IsPlace(p), Names(f, p) # {}
      PROVE  Runs(u, p, LastOf(Names(f, p)))
  <2>1. Names(f, p) \in SUBSET (1 .. n)
    BY <1>1 DEF Names
  <2>2. LastOf(Names(f, p)) \in Names(f, p) /\ \A j \in Names(f, p) : j <= LastOf(Names(f, p))
    BY <1>1, <1>3, <2>1, LastIs
  <2>3. QED
    BY <1>3, <2>2, LoadRuns
<1>. HIDE DEF u, n
<1>4. ASSUME NEW r \in Rows, Naming(f, FsmCtxs[r].event, {FsmCtxs[r].cur, "MAX"}) # {}
      PROVE  u.rows[r] = LastOf(Naming(f, FsmCtxs[r].event, {FsmCtxs[r].cur, "MAX"}))
  <2>1. PICK p : p = [row |-> r, event |-> FsmCtxs[r].event, cur |-> FsmCtxs[r].cur]
    OBVIOUS
  <2>2. p.row = r /\ p.event = FsmCtxs[r].event /\ p.cur = FsmCtxs[r].cur /\ r # 0
    BY <2>1, ExactRowIs
  <2>3. IsPlace(p)
    BY <2>2 DEF IsPlace
  <2>4. Naming(f, p.event, {p.cur, "MAX"}) = Names(f, p)
    BY <2>2, NamingIs
  <2>5. Runs(u, p, LastOf(Names(f, p)))
    BY <1>3, <1>4, <2>2, <2>3, <2>4
  <2>6. QED
    BY <2>2, <2>4, <2>5 DEF Runs
<1>5. ASSUME NEW i \in Attached(f), NEW j \in DOMAIN Sections(f)[i].pairs,
             NEW event, event = EventStrToInt(Sections(f)[i].pairs[j][1]),
             NEW state, state = StateStrToInt(Sections(f)[i].pairs[j][2]),
             state # "MAX", ExactRow(event, state) = {}
      PROVE  \E d \in SearchDynamicFsmCtx(u, event, state) :
               u.dynamic[d].index = LastOf(Naming(f, event, {state}))
  <2>1. PICK p : p = [row |-> 0, event |-> event, cur |-> state]
    OBVIOUS
  <2>2. p.row = 0 /\ p.event = event /\ p.cur = state
    BY <2>1
  <2>3. IsPlace(p)
    BY <1>5, <2>2 DEF IsPlace
  <2>4. Naming(f, event, {state}) = Names(f, p)
    BY <2>2, NamingIs
  <2>5. i \in Naming(f, event, {state})
    BY <1>5 DEF Naming
  <2>6. Runs(u, p, LastOf(Names(f, p)))
    BY <1>3, <2>3, <2>4, <2>5
  <2>7. InFront(u.dynamic, event, state, LastOf(Naming(f, event, {state})))
    BY <2>2, <2>4, <2>6 DEF Runs
  <2>8. QED
    BY <1>2, <2>7, FrontFound
<1>6. QED
  BY <1>4, <1>5 DEF AsLoaded, u

(* After a load every event a file names in a state runs the action of the *)
(* last section that names it, in whatever table the file was loaded into. *)
THEOREM LoadedRuns == Spec => []RunsAsLoaded
<1>1. RunsAsLoaded <=> (Files[file].loads => AsLoaded(table, file))
  BY DEF RunsAsLoaded, AsLoaded
<1>2. Init => RunsAsLoaded
  <2>. SUFFICES ASSUME Init, Files[file].loads PROVE AsLoaded(table, file)
    BY <1>1
  <2>1. PICK f \in {"vc_action", "missing"} : table = LoadAction(InitialTable, Files[f]) /\ file = f
    BY DEF Init
  <2>2. f \in DOMAIN Files
    BY FilesAssumption
  <2>3. QED
    BY <2>1, <2>2, FirstTable, LoadedAsNamed
<1>3. Shaped /\ RunsAsLoaded /\ [Next]_vars => RunsAsLoaded'
  <2>. SUFFICES ASSUME Shaped, RunsAsLoaded, [Next]_vars PROVE RunsAsLoaded'
    OBVIOUS
  <2>1. CASE Reaction
    <3>1. PICK c \in Typed :
            /\ c.cmd = <<"reaction">>
            /\ table' = LoadAction(table, Files[NamedFile(c.words)])
            /\ file' = NamedFile(c.words)
      BY <2>1, Zenon DEF Reaction
    <3>2. NamedFile(c.words) \in DOMAIN Files
      BY <3>1, NamesAssumption
    <3>3. Files[file'].loads => AsLoaded(table', file')
      BY <3>1, <3>2, LoadedAsNamed DEF Shaped
    <3>4. QED
      BY <3>3 DEF RunsAsLoaded, AsLoaded
  <2>2. CASE UNCHANGED <<table, file>>
    <3>1. Files[file'].loads => AsLoaded(table', file')
      BY <1>1, <2>2
    <3>2. QED
      BY <3>1 DEF RunsAsLoaded, AsLoaded
  <2>3. Reaction \/ UNCHANGED <<table, file>>
    BY DEF Next, User, LiftHandset, HangUp, PressKey, FlashHook, OffTheHook, Report, FarEnd,
           Process, DigitTimeout, Operator, SendByHand, ActionByHand, Connect, ConnectFails,
           InitServer, Shutdown, Reload, DropEvents, vars
  <2>4. QED
    BY <2>1, <2>2, <2>3
<1>4. QED
  BY <1>2, <1>3, ShapesKept, PTL DEF Spec

-----------------------------------------------------------------------------
(* What the server makes of the telephone, while the connection lasts.     *)
Rings(s) == endpt \in s.server.ring
Speaks(s) == endpt \in s.server.rtp
OwnChannel(s) == s.openChannel[endpt] \in {-1, endpt} /\ -1 \notin s.server.rtp
Steady(s) ==
  s \in LINK /\ s.sock = "open" /\ s.good \in Nat /\ ~ s.beyond /\ ~ Failed(s) /\ OwnChannel(s)

(* Voice can be stopped on a channel that was opened.                      *)
Ready(s, cmd) == cmd = "VOIP_RTP_DEACTIVE" => s.openChannel[endpt] = endpt

(* A command that came through: n is the link s afterwards.                *)
Through(s, n, cmd) ==
  /\ n.sock = "open" => s.sock = "open"
  /\ n.sock = "open" /\ Steady(s) /\ Ready(s, cmd) =>
       /\ Steady(n)
       /\ Rings(n) <=> cmd = "VOIP_RING_START" \/ (Rings(s) /\ cmd # "VOIP_RING_STOP")
       /\ Speaks(n) <=> cmd = "VOIP_RTP_ACTIVE" \/ (Speaks(s) /\ cmd # "VOIP_RTP_DEACTIVE")
       /\ n.openChannel[endpt] =
            IF cmd \in {"VOIP_CHANNEL_OPEN", "VOIP_RTP_ACTIVE"} THEN endpt ELSE s.openChannel[endpt]

LEMMA OwnEndpt ==
  endpt \in Int /\ endpt \in Nat /\ endpt \in Endpts /\ endpt < VT_ENDPT_MAX
  /\ VT_ENDPT_MAX = 2 /\ MAX_CNX = 4 /\ endpt \in 0 .. MAX_CNX
  BY PhoneAssumption DEF Endpts, VT_ENDPT_MAX, MAX_CNX

LEMMA MsgThrough ==
  ASSUME NEW s \in LINK, NEW cmd, NEW id \in Int, NEW n, n = SendMsgToServer(s, cmd, id),
         n.sock = "open"
  PROVE  /\ s.sock = "open"
         /\ s.good \in Nat =>
              /\ n.good \in Nat /\ n.beyond = s.beyond /\ n.result = "OK"
              /\ n.openChannel = s.openChannel /\ n.server = Served(s.server, cmd, id)
<1>1. s.good \in Int /\ s.sock \in {"none", "open", "dead"} /\ s.fate \in {"fails", "vanishes"}
  BY DEF LINK
<1>2. CASE s.sock = "open" /\ s.good > 0
  <2>1. n = [s EXCEPT !.good = @ - 1, !.server = Served(@, cmd, id), !.result = "OK"]
    BY <1>2 DEF SendMsgToServer
  <2>2. /\ n.good = s.good - 1 /\ n.beyond = s.beyond /\ n.result = "OK"
        /\ n.openChannel = s.openChannel /\ n.server = Served(s.server, cmd, id)
    BY <2>1 DEF LINK
  <2>3. QED
    BY <1>1, <1>2, <2>2
<1>3. CASE s.sock = "open" /\ s.good = 0 /\ s.fate = "vanishes"
  <2>1. n = [s EXCEPT !.sock = "dead", !.lost = TRUE, !.result = "OK"]
    BY <1>3 DEF SendMsgToServer
  <2>2. QED
    BY <2>1 DEF LINK
<1>4. CASE s.sock = "open" /\ s.good = 0 /\ s.fate = "fails"
  <2>1. n = [s EXCEPT !.sock = "dead", !.result = "FAILED"]
    BY <1>4 DEF SendMsgToServer
  <2>2. QED
    BY <2>1 DEF LINK
<1>5. CASE s.sock # "open" \/ s.good < 0
  <2>1. n = Return(s, "FAILED")
    BY <1>1, <1>5 DEF SendMsgToServer
  <2>2. n.sock = s.sock
    BY <2>1 DEF Return, LINK
  <2>3. QED
    BY <1>1, <1>5, <2>2
<1>6. QED
  BY <1>1, <1>2, <1>3, <1>4, <1>5

(* What the server makes of a message.                                     *)
LEMMA ServedIs ==
  ASSUME NEW v \in SERVER, NEW cmd, NEW id, NEW w, w = Served(v, cmd, id), NEW e
  PROVE  /\ e \in w.ring <=>
              (cmd = "VOIP_RING_START" /\ e = id) \/ (e \in v.ring /\ ~ (cmd = "VOIP_RING_STOP" /\ e = id))
         /\ e \in w.rtp <=>
              (cmd = "VOIP_RTP_ACTIVE" /\ e = id) \/ (e \in v.rtp /\ ~ (cmd = "VOIP_RTP_DEACTIVE" /\ e = id))
  BY DEF Served, SERVER

(* A message about the telephone, whose channel is open if it is to carry  *)
(* voice.                                                                  *)
LEMMA OwnMsg ==
  ASSUME NEW s \in LINK, NEW cmd, cmd # "VOIP_CHANNEL_OPEN",
         cmd = "VOIP_RTP_ACTIVE" => s.openChannel[endpt] = endpt,
         NEW n, n = SendMsgToServer(s, cmd, endpt)
  PROVE  n \in LINK /\ Through(s, n, cmd)
<1>1. n \in LINK
  BY OwnEndpt, MsgSent
<1>2. ASSUME n.sock = "open"
      PROVE  s.sock = "open"
  BY <1>2, MsgThrough, OwnEndpt
<1>3. ASSUME n.sock = "open", Steady(s)
      PROVE  /\ Steady(n)
             /\ Rings(n) <=> cmd = "VOIP_RING_START" \/ (Rings(s) /\ cmd # "VOIP_RING_STOP")
             /\ Speaks(n) <=> cmd = "VOIP_RTP_ACTIVE" \/ (Speaks(s) /\ cmd # "VOIP_RTP_DEACTIVE")
             /\ n.openChannel = s.openChannel
  <2>1. /\ n.good \in Nat /\ n.beyond = s.beyond /\ n.result = "OK"
        /\ n.openChannel = s.openChannel /\ n.server = Served(s.server, cmd, endpt)
    BY <1>3, MsgThrough, OwnEndpt DEF Steady
  <2>2. s.server \in SERVER
    BY DEF LINK
  <2>3. /\ endpt \in n.server.ring <=>
             cmd = "VOIP_RING_START" \/ (endpt \in s.server.ring /\ cmd # "VOIP_RING_STOP")
        /\ endpt \in n.server.rtp <=>
             cmd = "VOIP_RTP_ACTIVE" \/ (endpt \in s.server.rtp /\ cmd # "VOIP_RTP_DEACTIVE")
        /\ -1 \in n.server.rtp <=> -1 \in s.server.rtp
    BY <2>1, <2>2, ServedIs, OwnEndpt
  <2>4. OwnChannel(n) /\ ~ Failed(n)
    BY <1>3, <2>1, <2>3 DEF Steady, OwnChannel, Failed
  <2>5. QED
    BY <1>1, <1>3, <2>1, <2>3, <2>4 DEF Steady, Rings, Speaks
<1>4. QED
  BY <1>1, <1>2, <1>3 DEF Through

LEMMA ForOwnEndpt ==
  ASSUME NEW s \in LINK
  PROVE  /\ Through(s, vt_sendRingStart(s, endpt), "VOIP_RING_START")
         /\ Through(s, vt_sendRingStop(s, endpt), "VOIP_RING_STOP")
         /\ Through(s, vt_sendSlicControl(s, endpt), "VOIP_SLIC_CONTROL")
         /\ Through(s, vt_sendTonePlay(s, endpt), "VOIP_TONE_PLAY")
         /\ Through(s, vt_sendCidPlay(s, endpt), "VOIP_CID_PLAY")
<1>1. \A cmd : SendForEndpt(s, cmd, endpt) = SendMsgToServer(s, cmd, endpt)
  BY OwnEndpt DEF SendForEndpt
<1>2. vt_sendCidPlay(s, endpt) = SendMsgToServer(s, "VOIP_CID_PLAY", endpt)
  BY OwnEndpt DEF vt_sendCidPlay
<1>3. QED
  BY <1>1, <1>2, OwnMsg
  DEF vt_sendRingStart, vt_sendRingStop, vt_sendSlicControl, vt_sendTonePlay

(* The channel of the telephone has its number.                            *)
LEMMA ChannelThrough ==
  ASSUME NEW s \in LINK, NEW wanted \in {-1, endpt}
  PROVE  Through(s, vt_sendChannelOpen(s, endpt, wanted), "VOIP_CHANNEL_OPEN")
<1>. DEFINE sent == SendMsgToServer(s, "VOIP_CHANNEL_OPEN", endpt)
            n == vt_sendChannelOpen(s, endpt, wanted)
<1>1. (IF wanted < 0 THEN endpt ELSE wanted) = endpt
  BY OwnEndpt
<1>2. n = IF Failed(sent) THEN sent ELSE [sent EXCEPT !.openChannel[endpt] = endpt]
  BY <1>1, OwnEndpt DEF vt_sendChannelOpen, vt_setOpenChannel
<1>3. sent \in LINK
  BY OwnEndpt, MsgSent
<1>4. PICK u : u = sent
  OBVIOUS
<1>. HIDE DEF sent, n
<1>5. ASSUME u.sock = "open"
      PROVE  /\ s.sock = "open"
             /\ s.good \in Nat =>
                  /\ u.good \in Nat /\ u.beyond = s.beyond /\ u.result = "OK"
                  /\ u.openChannel = s.openChannel
                  /\ u.server = Served(s.server, "VOIP_CHANNEL_OPEN", endpt)
  BY <1>4, <1>5, MsgThrough, OwnEndpt DEF sent
<1>6. PICK c : c = [u.openChannel EXCEPT ![endpt] = endpt]
  OBVIOUS
<1>7. c \in [Endpts -> -1 .. MAX_CNX] /\ c[endpt] = endpt
  BY <1>3, <1>4, <1>6, OwnEndpt DEF LINK
<1>8. PICK v : v = [u EXCEPT !.openChannel = c]
  OBVIOUS
<1>9. /\ v \in LINK /\ v.sock = u.sock /\ v.good = u.good /\ v.beyond = u.beyond
      /\ v.result = u.result /\ v.openChannel = c /\ v.server = u.server
  BY <1>3, <1>4, <1>7, <1>8 DEF LINK
<1>10. n = IF Failed(u) THEN u ELSE v
  BY <1>2, <1>4, <1>6, <1>8
<1>11. n.sock = "open" => u.sock = "open"
  BY <1>9, <1>10
<1>12. ASSUME n.sock = "open", Steady(s)
       PROVE  /\ Steady(n) /\ (Rings(n) <=> Rings(s)) /\ (Speaks(n) <=> Speaks(s))
              /\ n.openChannel[endpt] = endpt
  <2>1. /\ u.good \in Nat /\ u.beyond = s.beyond /\ u.result = "OK"
        /\ u.server = Served(s.server, "VOIP_CHANNEL_OPEN", endpt)
    BY <1>5, <1>11, <1>12 DEF Steady
  <2>2. n = v
    BY <1>10, <2>1 DEF Failed
  <2>3. s.server \in SERVER
    BY DEF LINK
  <2>4. /\ endpt \in u.server.ring <=> endpt \in s.server.ring
        /\ \A e : e \in u.server.rtp <=> e \in s.server.rtp
    BY <2>1, <2>3, ServedIs
  <2>5. QED
    BY <1>7, <1>9, <1>11, <1>12, <2>1, <2>2, <2>4
    DEF Steady, OwnChannel, Rings, Speaks, Failed
<1>13. QED
  BY <1>5, <1>11, <1>12 DEF Through, n
(* Voice is started on the channel of the telephone, and stopped there.    *)
LEMMA VoiceThrough ==
  ASSUME NEW s \in LINK
  PROVE  Through(s, vt_sendRtpActive(s, endpt), "VOIP_RTP_ACTIVE")
<1>. DEFINE ready == IF vt_getOpenChannel(s, endpt) < 0
                       THEN vt_sendChannelOpen(s, endpt, endpt) ELSE Return(s, "OK")
            n == vt_sendRtpActive(s, endpt)
<1>1. ready \in LINK
  BY ChannelOpened, Returns, OwnEndpt
<1>2. vt_getOpenChannel(s, endpt) = s.openChannel[endpt]
  BY OwnEndpt DEF vt_getOpenChannel
<1>3. PICK u : u = ready
  OBVIOUS
<1>4. n = IF Failed(u) THEN u
          ELSE SendMsgToServer(u, "VOIP_RTP_ACTIVE", vt_getOpenChannel(u, endpt))
  BY <1>3, OwnEndpt DEF vt_sendRtpActive
<1>5. vt_getOpenChannel(u, endpt) = u.openChannel[endpt] /\ u.openChannel[endpt] \in Int
  BY <1>1, <1>3, OwnEndpt DEF vt_getOpenChannel, LINK, MAX_CNX
<1>6. Through(s, vt_sendChannelOpen(s, endpt, endpt), "VOIP_CHANNEL_OPEN")
  BY ChannelThrough
<1>7. s.openChannel[endpt] \in Int
  BY OwnEndpt DEF LINK, MAX_CNX
<1>8. u.sock = "open" => s.sock = "open"
  <2>1. Return(s, "OK").sock = s.sock
    BY DEF Return, LINK
  <2>2. QED
    BY <1>3, <1>6, <2>1 DEF Through
<1>9. ASSUME Steady(s), u.sock = "open"
      PROVE  /\ Steady(u) /\ (Rings(u) <=> Rings(s)) /\ (Speaks(u) <=> Speaks(s))
             /\ u.openChannel[endpt] = endpt
  <2>1. CASE s.openChannel[endpt] < 0
    <3>1. u = vt_sendChannelOpen(s, endpt, endpt)
      BY <1>2, <1>3, <2>1
    <3>2. QED
      BY <1>6, <1>9, <3>1 DEF Through, Ready
  <2>2. CASE ~ (s.openChannel[endpt] < 0)
    <3>1. u = Return(s, "OK")
      BY <1>2, <1>3, <2>2
    <3>2. /\ u \in LINK /\ u.sock = s.sock /\ u.good = s.good /\ u.beyond = s.beyond
          /\ u.result = "OK" /\ u.openChannel = s.openChannel /\ u.server = s.server
      BY <1>1, <1>3, <3>1 DEF Return, LINK
    <3>3. s.openChannel[endpt] = endpt
      BY <1>9, <2>2, OwnEndpt DEF Steady, OwnChannel
    <3>4. QED
      BY <1>9, <3>2, <3>3 DEF Steady, OwnChannel, Failed, Rings, Speaks
  <2>3. QED
    BY <2>1, <2>2
<1>10. n.sock = "open" => u.sock = "open"
  BY <1>1, <1>3, <1>4, <1>5, MsgThrough
<1>11. ASSUME Steady(s), n.sock = "open"
       PROVE  /\ Steady(n) /\ (Rings(n) <=> Rings(s)) /\ Speaks(n)
              /\ n.openChannel[endpt] = endpt
  <2>1. /\ Steady(u) /\ (Rings(u) <=> Rings(s)) /\ u.openChannel[endpt] = endpt
    BY <1>9, <1>10, <1>11
  <2>2. n = SendMsgToServer(u, "VOIP_RTP_ACTIVE", endpt)
    BY <1>4, <1>5, <2>1 DEF Steady
  <2>3. Through(u, n, "VOIP_RTP_ACTIVE")
    BY <1>1, <1>3, <2>1, <2>2, OwnMsg
  <2>4. QED
    BY <1>11, <2>1, <2>3 DEF Through, Ready
<1>12. QED
  BY <1>8, <1>10, <1>11 DEF Through, n

LEMMA SilenceThrough ==
  ASSUME NEW s \in LINK
  PROVE  Through(s, vt_sendRtpDeactive(s, endpt), "VOIP_RTP_DEACTIVE")
<1>. DEFINE n == vt_sendRtpDeactive(s, endpt)
<1>1. vt_getOpenChannel(s, endpt) = s.openChannel[endpt] /\ s.openChannel[endpt] \in Int
  BY OwnEndpt DEF vt_getOpenChannel, LINK, MAX_CNX
<1>2. n = IF s.openChannel[endpt] < 0 THEN Return(s, "FAILED")
          ELSE SendMsgToServer(s, "VOIP_RTP_DEACTIVE", s.openChannel[endpt])
  BY <1>1, OwnEndpt DEF vt_sendRtpDeactive
<1>3. Return(s, "FAILED").sock = s.sock
  BY DEF Return, LINK
<1>4. n.sock = "open" => s.sock = "open"
  BY <1>1, <1>2, <1>3, MsgThrough
<1>5. ASSUME s.openChannel[endpt] = endpt
      PROVE  Through(s, n, "VOIP_RTP_DEACTIVE")
  BY <1>2, <1>5, OwnEndpt, OwnMsg
<1>6. QED
  BY <1>4, <1>5 DEF Through, Ready

-----------------------------------------------------------------------------
(* The handlers of the actions, given the words of a row: each sends one   *)
(* message for the telephone.                                              *)
Sends(handler, words) ==
  \A s \in LINK, junk \in Seq(ARGUMENT) :
    Through(s, RunHandler(s, handler, words, junk), handler.cmd)

OfRow(words) == words # << >> /\ words[1] = Number(endpt)
OwnLine(cmd, line, data) ==
  /\ cmd \notin NeedAllDataCmd /\ cmd # "VOIP_TONE_STOP"
  /\ line = <<Number(endpt)>> \o data /\ line # << >>

LEMMA LineIs ==
  ASSUME NEW words, OfRow(words), NEW cmd, NEW data, NEW line, OwnLine(cmd, line, data),
         NEW s, NEW junk
  PROVE  RunHandler(s, Handler(cmd, data), words, junk) = SendCommand(s, cmd, line)
<1>1. Handler(cmd, data).cmd = cmd /\ Handler(cmd, data).data = data
  BY DEF Handler
<1>2. PrepareHandlerData(cmd, words, junk) = <<Number(endpt)>>
  BY DEF PrepareHandlerData, OfRow, OwnLine
<1>3. HandlerArgs(Handler(cmd, data), words, junk) = line
  BY <1>1, <1>2 DEF HandlerArgs, OwnLine
<1>4. QED
  BY <1>1, <1>3 DEF RunHandler, OwnLine

LEMMA OwnSends ==
  ASSUME NEW words, OfRow(words)
  PROVE  /\ \A c \in Int : Sends(Slic(c), words)
         /\ \A tone, time \in Int : Sends(Tone(tone, time), words)
         /\ Sends(Handler("VOIP_RING_STOP", Silent), words)
         /\ Sends(Handler("VOIP_RTP_DEACTIVE", Silent), words)
         /\ Sends(Handler("VOIP_RING_START", <<Number(0)>>), words)
         /\ Sends(Handler("VOIP_CHANNEL_OPEN", OpenArgs), words)
<1>0. Number(endpt).number = endpt /\ Number(-1).number = -1 /\ \A k : IsDigit(Number(k))
  BY DEF Number, IsDigit
<1>1. ASSUME NEW c \in Int, NEW s \in LINK, NEW junk
      PROVE  RunHandler(s, Slic(c), words, junk) = vt_sendSlicControl(s, endpt)
  <2>1. PICK line, data : line = <<Number(endpt), Number(c)>> /\ data = <<Number(c)>>
    OBVIOUS
  <2>2. line = <<Number(endpt)>> \o data /\ line # << >> /\ Len(line) = 2
        /\ line[1] = Number(endpt) /\ line[2] = Number(c)
    BY <2>1
  <2>3. RunHandler(s, Slic(c), words, junk) = SendCommand(s, "VOIP_SLIC_CONTROL", line)
    <3>1. OwnLine("VOIP_SLIC_CONTROL", line, data)
      BY <2>2 DEF OwnLine, NeedAllDataCmd
    <3>2. RunHandler(s, Handler("VOIP_SLIC_CONTROL", data), words, junk)
            = SendCommand(s, "VOIP_SLIC_CONTROL", line)
      BY <3>1, LineIs
    <3>3. QED
      BY <2>1, <3>2 DEF Slic
  <2>4. AreInts(line, 2)
    <3>1. \A i \in 1 .. 2 : IsDigit(line[i])
      <4>1. IsDigit(line[1]) /\ IsDigit(line[2])
        BY <1>0, <2>2
      <4>2. QED
        BY <4>1
    <3>2. QED
      BY <2>2, <3>1 DEF AreInts
  <2>5. QED
    BY <1>0, <2>2, <2>3, <2>4 DEF SendCommand, cli_sendSlicControlHandler, WithEndpt
<1>2. ASSUME NEW tone \in Int, NEW time \in Int, NEW s \in LINK, NEW junk
      PROVE  RunHandler(s, Tone(tone, time), words, junk) = vt_sendTonePlay(s, endpt)
  <2>1. PICK line, data : /\ line = <<Number(endpt), Number(tone), Number(time)>>
                          /\ data = <<Number(tone), Number(time)>>
    OBVIOUS
  <2>2. line = <<Number(endpt)>> \o data /\ line # << >> /\ Len(line) = 3
        /\ line[1] = Number(endpt) /\ line[2] = Number(tone) /\ line[3] = Number(time)
    BY <2>1
  <2>3. RunHandler(s, Tone(tone, time), words, junk) = SendCommand(s, "VOIP_TONE_PLAY", line)
    <3>1. OwnLine("VOIP_TONE_PLAY", line, data)
      BY <2>2 DEF OwnLine, NeedAllDataCmd
    <3>2. RunHandler(s, Handler("VOIP_TONE_PLAY", data), words, junk)
            = SendCommand(s, "VOIP_TONE_PLAY", line)
      BY <3>1, LineIs
    <3>3. QED
      BY <2>1, <3>2 DEF Tone
  <2>4. AreInts(line, 3)
    <3>1. \A i \in 1 .. 3 : IsDigit(line[i])
      <4>1. IsDigit(line[1]) /\ IsDigit(line[2]) /\ IsDigit(line[3])
        BY <1>0, <2>2
      <4>2. QED
        BY <4>1
    <3>2. QED
      BY <2>2, <3>1 DEF AreInts
  <2>5. QED
    BY <1>0, <2>2, <2>3, <2>4 DEF SendCommand, cli_sendTonePlayHandler, WithEndpt
<1>3. ASSUME NEW cmd \in {"VOIP_RING_STOP", "VOIP_RTP_DEACTIVE"}, NEW s \in LINK, NEW junk
      PROVE  RunHandler(s, Handler(cmd, Silent), words, junk) =
               IF cmd = "VOIP_RING_STOP" THEN vt_sendRingStop(s, endpt) ELSE vt_sendRtpDeactive(s, endpt)
  <2>1. PICK line, data : line = <<Number(endpt)>> /\ data = << >>
    OBVIOUS
  <2>2. line = <<Number(endpt)>> \o data /\ line # << >> /\ Len(line) = 1 /\ line[1] = Number(endpt)
    BY <2>1
  <2>3. RunHandler(s, Handler(cmd, Silent), words, junk) = SendCommand(s, cmd, line)
    <3>1. OwnLine(cmd, line, data)
      BY <2>2 DEF OwnLine, NeedAllDataCmd
    <3>2. RunHandler(s, Handler(cmd, data), words, junk) = SendCommand(s, cmd, line)
      BY <3>1, LineIs
    <3>3. QED
      BY <2>1, <3>2 DEF Silent
  <2>4. AreInts(line, 1)
    <3>1. \A i \in 1 .. 1 : IsDigit(line[i])
      <4>1. IsDigit(line[1])
        BY <1>0, <2>2
      <4>2. QED
        BY <4>1
    <3>2. QED
      BY <2>2, <3>1 DEF AreInts
  <2>5. QED
    BY <1>0, <2>2, <2>3, <2>4
    DEF SendCommand, cli_sendRingStopHandler, cli_sendRtpDeactiveHandler, WithEndpt
<1>4. ASSUME NEW s \in LINK, NEW junk
      PROVE  RunHandler(s, Handler("VOIP_RING_START", <<Number(0)>>), words, junk)
               = vt_sendRingStart(s, endpt)
  <2>1. PICK line, data : line = <<Number(endpt), Number(0)>> /\ data = <<Number(0)>>
    OBVIOUS
  <2>2. line = <<Number(endpt)>> \o data /\ line # << >> /\ Len(line) = 2
        /\ line[1] = Number(endpt) /\ line[2] = Number(0)
    BY <2>1
  <2>3. RunHandler(s, Handler("VOIP_RING_START", <<Number(0)>>), words, junk)
          = SendCommand(s, "VOIP_RING_START", line)
    <3>1. OwnLine("VOIP_RING_START", line, data)
      BY <2>2 DEF OwnLine, NeedAllDataCmd
    <3>2. RunHandler(s, Handler("VOIP_RING_START", data), words, junk)
            = SendCommand(s, "VOIP_RING_START", line)
      BY <3>1, LineIs
    <3>3. QED
      BY <2>1, <3>2
  <2>4. AreInts(line, 2)
    <3>1. \A i \in 1 .. 2 : IsDigit(line[i])
      <4>1. IsDigit(line[1]) /\ IsDigit(line[2])
        BY <1>0, <2>2
      <4>2. QED
        BY <4>1
    <3>2. QED
      BY <2>2, <3>1 DEF AreInts
  <2>5. QED
    BY <1>0, <2>2, <2>3, <2>4 DEF SendCommand, cli_sendRingStartHandler, WithEndpt
<1>5. ASSUME NEW s \in LINK, NEW junk
      PROVE  RunHandler(s, Handler("VOIP_CHANNEL_OPEN", OpenArgs), words, junk)
               = vt_sendChannelOpen(s, endpt, -1)
  <2>1. PICK line, data :
          /\ line = <<Number(endpt), Number(-1), Number(0), Number(0), Number(0), Number(0)>>
          /\ data = OpenArgs
    OBVIOUS
  <2>2. /\ line = <<Number(endpt)>> \o data /\ line # << >> /\ Len(line) = 6
        /\ line[1] = Number(endpt) /\ line[2] = Number(-1)
        /\ \A i \in 3 .. 6 : line[i] = Number(0)
    BY <2>1 DEF OpenArgs
  <2>3. RunHandler(s, Handler("VOIP_CHANNEL_OPEN", OpenArgs), words, junk)
          = SendCommand(s, "VOIP_CHANNEL_OPEN", line)
    <3>1. OwnLine("VOIP_CHANNEL_OPEN", line, data)
      BY <2>2 DEF OwnLine, NeedAllDataCmd
    <3>2. RunHandler(s, Handler("VOIP_CHANNEL_OPEN", data), words, junk)
            = SendCommand(s, "VOIP_CHANNEL_OPEN", line)
      BY <3>1, LineIs
    <3>3. QED
      BY <2>1, <3>2
  <2>4. AreInts(line, 6)
    <3>1. \A i \in 1 .. 6 : IsDigit(line[i])
      <4>1. IsDigit(line[1]) /\ IsDigit(line[2]) /\ IsDigit(line[3]) /\ IsDigit(line[4]) /\ IsDigit(line[5]) /\ IsDigit(line[6])
        BY <1>0, <2>2
      <4>2. QED
        BY <4>1
    <3>2. QED
      BY <2>2, <3>1 DEF AreInts
  <2>5. QED
    BY <1>0, <2>2, <2>3, <2>4 DEF SendCommand, cli_sendChannelOpenHandler
<1>6. /\ \A c : Slic(c).cmd = "VOIP_SLIC_CONTROL"
      /\ \A tone, time : Tone(tone, time).cmd = "VOIP_TONE_PLAY"
      /\ \A cmd, data : Handler(cmd, data).cmd = cmd
  BY DEF Slic, Tone, Handler
<1>7. \A s \in LINK : Through(s, vt_sendChannelOpen(s, endpt, -1), "VOIP_CHANNEL_OPEN")
  BY ChannelThrough
<1>8. QED
  BY <1>1, <1>2, <1>3, <1>4, <1>5, <1>6, <1>7, ForOwnEndpt, SilenceThrough DEF Sends

(* The number of the caller stands behind the endpoint.                    *)
LEMMA CidSends ==
  Sends(Handler("VOIP_CID_PLAY", <<Text("hzg")>>), <<Number(endpt), Number(456)>>)
<1>1. SUFFICES ASSUME NEW s \in LINK, NEW junk \in Seq(ARGUMENT)
               PROVE  RunHandler(s, Handler("VOIP_CID_PLAY", <<Text("hzg")>>),
                                 <<Number(endpt), Number(456)>>, junk) = vt_sendCidPlay(s, endpt)
  <2>1. Handler("VOIP_CID_PLAY", <<Text("hzg")>>).cmd = "VOIP_CID_PLAY"
    BY DEF Handler
  <2>2. QED
    BY <1>1, <2>1, ForOwnEndpt DEF Sends
<1>0. PICK a, b, c : a = Number(endpt) /\ b = Number(456) /\ c = Text("hzg")
  OBVIOUS
<1>2. PICK words, h, data, line : /\ words = <<a, b>> /\ data = <<c>>
                                  /\ h = Handler("VOIP_CID_PLAY", data)
                                  /\ line = words \o data
  OBVIOUS
<1>3. h.cmd = "VOIP_CID_PLAY" /\ h.data = data
  BY <1>2 DEF Handler
<1>4. /\ words \o data = line /\ line # << >> /\ Len(line) = 3
      /\ line[1] = Number(endpt) /\ line[2] = Number(456)
  <2>1. a \in ARGUMENT /\ b \in ARGUMENT /\ c \in ARGUMENT
    <3>1. "hzg" \in TEXTS
      BY DEF TEXTS
    <3>2. QED
      BY <1>0, <3>1, OwnEndpt, WordsAreWords
  <2>2. words \in Seq(ARGUMENT) /\ data \in Seq(ARGUMENT)
    BY <1>2, <2>1, TuplesAreSeqs, Zenon
  <2>3. Len(words) = 2 /\ words[1] = a /\ words[2] = b /\ Len(data) = 1
    BY <1>2
  <2>4. /\ words \o data \in Seq(ARGUMENT) /\ Len(words \o data) = 3
        /\ (words \o data)[1] = a /\ (words \o data)[2] = b
    <3>1. \A i \in 1 .. 2 : (words \o data)[i] = words[i]
      <4>1. PICK both : both = words \o data
        OBVIOUS
      <4>2. \A i \in 1 .. Len(words) + Len(data) :
              both[i] = IF i <= Len(words) THEN words[i] ELSE data[i - Len(words)]
        BY <2>2, <4>1, ConcatProperties
      <4>3. ASSUME NEW i \in 1 .. 2 PROVE both[i] = words[i]
        <5>1. i \in 1 .. Len(words) + Len(data) /\ i <= Len(words)
          BY <2>3
        <5>2. QED
          BY <4>2, <5>1
      <4>4. QED
        BY <4>1, <4>3
    <3>2. words \o data \in Seq(ARGUMENT) /\ Len(words \o data) = Len(words) + Len(data)
      BY <2>2, ConcatProperties
    <3>3. 1 \in 1 .. 2 /\ 2 \in 1 .. 2
      OBVIOUS
    <3>4. (words \o data)[1] = a /\ (words \o data)[2] = b
      BY <2>3, <3>1, <3>3
    <3>5. QED
      BY <2>3, <3>2, <3>4
  <2>5. words \o data # << >>
    BY <2>4, EmptySeq
  <2>6. QED
    BY <1>0, <1>2, <2>4, <2>5
<1>5. HandlerArgs(h, words, junk) = line
  BY <1>3, <1>4 DEF HandlerArgs, PrepareHandlerData, NeedAllDataCmd
<1>6. IsDigit(Number(endpt)) /\ IsDigit(Number(456)) /\ Number(endpt).number = endpt
  BY DEF IsDigit, Number
<1>7. AreInts(line, 2)
  BY <1>4, <1>6 DEF AreInts
<1>8. RunHandler(s, h, words, junk) = cli_sendCidPlayHandler(s, line)
  BY <1>3, <1>5 DEF RunHandler, SendCommand
<1>9. cli_sendCidPlayHandler(s, line) = vt_sendCidPlay(s, endpt)
  BY <1>4, <1>6, <1>7 DEF cli_sendCidPlayHandler
<1>10. QED
  BY <1>0, <1>2, <1>8, <1>9

(* The far end's address stands behind the endpoint.                       *)
LEMMA TalkSends == Sends(Handler("VOIP_RTP_ACTIVE", Silent), TalkWords)
<1>1. Handler("VOIP_RTP_ACTIVE", Silent).cmd = "VOIP_RTP_ACTIVE"
  BY DEF Handler
<1>2. QED
  BY <1>1, TalkWordsEndpt, VoiceThrough DEF Sends

-----------------------------------------------------------------------------
(* An action whose handlers each send their message for the telephone, and *)
(* that does not both start and stop the ringing, or the voice.            *)
Has(handlers, k, cmd) == \E i \in 1 .. k : handlers[i].cmd = cmd

(* All handlers send, and no two of them undo one another.                 *)
Orderly(handlers, words) ==
  LET n == Len(handlers)
  IN /\ \A i \in 1 .. n : Sends(handlers[i], words)
     /\ ~ (Has(handlers, n, "VOIP_RING_START") /\ Has(handlers, n, "VOIP_RING_STOP"))
     /\ ~ (Has(handlers, n, "VOIP_RTP_ACTIVE") /\ Has(handlers, n, "VOIP_RTP_DEACTIVE"))

(* What the link s has become when k of the handlers have been run.        *)
Went(s, u, handlers, k) ==
  /\ Steady(u)
  /\ Rings(u) <=> Has(handlers, k, "VOIP_RING_START")
                  \/ (Rings(s) /\ ~ Has(handlers, k, "VOIP_RING_STOP"))
  /\ Speaks(u) <=> Has(handlers, k, "VOIP_RTP_ACTIVE")
                   \/ (Speaks(s) /\ ~ Has(handlers, k, "VOIP_RTP_DEACTIVE"))
  /\ (s.openChannel[endpt] = endpt \/ Has(handlers, k, "VOIP_RTP_ACTIVE"))
     => u.openChannel[endpt] = endpt

LEMMA HasNext ==
  ASSUME NEW handlers, NEW k \in Nat, NEW cmd
  PROVE  /\ Has(handlers, k + 1, cmd) <=> Has(handlers, k, cmd) \/ handlers[k + 1].cmd = cmd
         /\ ~ Has(handlers, 0, cmd)
<1>1. /\ \A i \in 1 .. k + 1 : i \in 1 .. k \/ i = k + 1
      /\ \A i \in 1 .. k : i \in 1 .. k + 1
      /\ k + 1 \in 1 .. k + 1
      /\ \A i \in 1 .. 0 : FALSE
  OBVIOUS
<1>2. QED
  BY <1>1 DEF Has

LEMMA HandlerWent ==
  ASSUME NEW s, NEW handlers, NEW k \in Nat, NEW words \in Seq(ARGUMENT),
         NEW junk \in Seq(ARGUMENT), NEW u \in LINK, NEW v,
         v = AfterHandler(u, handlers[k + 1], words, junk),
         Sends(handlers[k + 1], words), v.sock = "open",
         u.sock = "open" => Went(s, u, handlers, k),
         ~ (Has(handlers, k + 1, "VOIP_RING_START") /\ Has(handlers, k + 1, "VOIP_RING_STOP")),
         ~ (Has(handlers, k + 1, "VOIP_RTP_ACTIVE") /\ Has(handlers, k + 1, "VOIP_RTP_DEACTIVE")),
         Has(handlers, k + 1, "VOIP_RTP_DEACTIVE") => s.openChannel[endpt] = endpt
  PROVE  Went(s, v, handlers, k + 1)
<1>. DEFINE cmd == handlers[k + 1].cmd
<1>1. Through(u, RunHandler(u, handlers[k + 1], words, junk), cmd)
  BY DEF Sends
<1>2. u.sock = "open"
  BY <1>1 DEF AfterHandler, Through
<1>3. Went(s, u, handlers, k)
  BY <1>2
<1>4. Through(u, v, cmd)
  BY <1>1, <1>3 DEF AfterHandler, Went, Steady
<1>5. \A c : Has(handlers, k + 1, c) <=> Has(handlers, k, c) \/ cmd = c
  BY HasNext
<1>6. Ready(u, cmd)
  BY <1>3, <1>5 DEF Ready, Went
<1>. HIDE DEF cmd
<1>7. /\ Steady(v)
      /\ Rings(v) <=> cmd = "VOIP_RING_START" \/ (Rings(u) /\ cmd # "VOIP_RING_STOP")
      /\ Speaks(v) <=> cmd = "VOIP_RTP_ACTIVE" \/ (Speaks(u) /\ cmd # "VOIP_RTP_DEACTIVE")
      /\ v.openChannel[endpt] =
           IF cmd \in {"VOIP_CHANNEL_OPEN", "VOIP_RTP_ACTIVE"} THEN endpt ELSE u.openChannel[endpt]
  BY <1>3, <1>4, <1>6 DEF Through, Went
<1>8. Rings(v) <=> Has(handlers, k + 1, "VOIP_RING_START")
                   \/ (Rings(s) /\ ~ Has(handlers, k + 1, "VOIP_RING_STOP"))
  BY <1>3, <1>5, <1>7 DEF Went
<1>9. Speaks(v) <=> Has(handlers, k + 1, "VOIP_RTP_ACTIVE")
                    \/ (Speaks(s) /\ ~ Has(handlers, k + 1, "VOIP_RTP_DEACTIVE"))
  BY <1>3, <1>5, <1>7 DEF Went
<1>10. (s.openChannel[endpt] = endpt \/ Has(handlers, k + 1, "VOIP_RTP_ACTIVE"))
       => v.openChannel[endpt] = endpt
  BY <1>3, <1>5, <1>7 DEF Went
<1>11. QED
  BY <1>7, <1>8, <1>9, <1>10 DEF Went

LEMMA ActionWent ==
  ASSUME NEW s, Steady(s), NEW handlers \in Seq(RUNNABLE), NEW words \in Seq(ARGUMENT),
         NEW junk \in Seq(ARGUMENT), Orderly(handlers, words),
         Has(handlers, Len(handlers), "VOIP_RTP_DEACTIVE") => s.openChannel[endpt] = endpt,
         NEW n, n = ActionGo(s, handlers, words, junk), n.sock = "open"
  PROVE  Went(s, n, handlers, Len(handlers))
<1>. DEFINE l == Len(handlers)
<1>1. s \in LINK /\ l \in Nat
  BY DEF Steady
<1>2. PICK f \in [0 .. l -> LINK] :
        /\ f[0] = Return(s, "OK")
        /\ \A i \in 1 .. l : f[i] = AfterHandler(f[i - 1], handlers[i], words, junk)
        /\ n = f[l]
  BY <1>1, ActionSteps
<1>. HIDE DEF l
<1>3. \A k \in 0 .. l : \A c : Has(handlers, k, c) => Has(handlers, l, c)
  BY <1>1 DEF Has
<1>. DEFINE T == {k \in Nat : k <= l /\ f[k].sock = "open" => Went(s, f[k], handlers, k)}
<1>4. 0 \in T
  <2>1. PICK b : b = Return(s, "OK")
    OBVIOUS
  <2>2. /\ b \in LINK /\ b.sock = s.sock /\ b.good = s.good /\ b.beyond = s.beyond
        /\ b.result = "OK" /\ b.openChannel = s.openChannel /\ b.server = s.server
    BY <1>1, <2>1 DEF Return, LINK
  <2>3. Steady(b) /\ (Rings(b) <=> Rings(s)) /\ (Speaks(b) <=> Speaks(s))
    BY <2>2 DEF Steady, OwnChannel, Failed, Rings, Speaks
  <2>4. \A c : ~ Has(handlers, 0, c)
    BY HasNext
  <2>5. Went(s, b, handlers, 0)
    BY <2>2, <2>3, <2>4 DEF Went
  <2>6. QED
    BY <1>2, <2>1, <2>5
<1>5. \A k \in Nat : k \in T => k + 1 \in T
  <2>1. SUFFICES ASSUME NEW k \in Nat, k \in T, k + 1 <= l, f[k + 1].sock = "open"
                 PROVE  Went(s, f[k + 1], handlers, k + 1)
    OBVIOUS
  <2>2. /\ k \in 0 .. l /\ k + 1 \in 1 .. l /\ k + 1 \in 0 .. l /\ (k + 1) - 1 = k
        /\ f[k] \in LINK
    BY <1>1, <1>2, <2>1
  <2>3. f[k + 1] = AfterHandler(f[k], handlers[k + 1], words, junk)
    BY <1>2, <2>2
  <2>4. Sends(handlers[k + 1], words)
    BY <2>2 DEF Orderly, l
  <2>5. /\ ~ (Has(handlers, k + 1, "VOIP_RING_START") /\ Has(handlers, k + 1, "VOIP_RING_STOP"))
        /\ ~ (Has(handlers, k + 1, "VOIP_RTP_ACTIVE") /\ Has(handlers, k + 1, "VOIP_RTP_DEACTIVE"))
        /\ Has(handlers, k + 1, "VOIP_RTP_DEACTIVE") => s.openChannel[endpt] = endpt
    BY <1>3, <2>2 DEF Orderly, l
  <2>6. f[k].sock = "open" => Went(s, f[k], handlers, k)
    BY <2>1, <2>2
  <2>7. QED
    BY <2>1, <2>2, <2>3, <2>4, <2>5, <2>6, HandlerWent
<1>. HIDE DEF T
<1>6. l \in T
  BY <1>1, <1>4, <1>5, NumbersByInduction
<1>7. QED
  BY <1>1, <1>2, <1>6 DEF T, l

-----------------------------------------------------------------------------
(* What the action of a row has to do: ring when the telephone is to ring, *)
(* stop ringing when it rang, and likewise for the voice; that it stops    *)
(* for hanging up is left to the handler.                                  *)
Telling == {"VOIP_RING_START", "VOIP_RING_STOP", "VOIP_RTP_ACTIVE", "VOIP_RTP_DEACTIVE"}
Tells(handlers) == {c \in Telling : Has(handlers, Len(handlers), c)}

(* The words the data setter of row r writes, whatever the event carries.  *)
RowWords(r) == ActionData(Event(FsmCtxs[r].event), FsmCtxs[r].cur)

AllSend(handlers, words) == \A i \in 1 .. Len(handlers) : Sends(handlers[i], words)

(* What the server must be told when row r is taken.                       *)
Needs(r) ==
  {c \in Telling :
     \/ c = "VOIP_RING_START" /\ FsmCtxs[r].new = "BE_CALLED"
     \/ c = "VOIP_RING_STOP" /\ FsmCtxs[r].cur = "BE_CALLED"
     \/ c = "VOIP_RTP_ACTIVE" /\ FsmCtxs[r].new = "TALKING"
     \/ c = "VOIP_RTP_DEACTIVE" /\ FsmCtxs[r].event = "CALL_DOWN" /\ FsmCtxs[r].cur = "TALKING"}

Suits(handlers, r) ==
  /\ handlers \in Seq(RUNNABLE)
  /\ Orderly(handlers, RowWords(r))
  /\ Tells(handlers) = Needs(r)

LEMMA RowsAre ==
  /\ Rows = 1 .. 19
  /\ \A r \in {1, 2, 3} : FsmCtxs[r].event = "HOOK_ON" /\ FsmCtxs[r].new = "HOOK_ON"
  /\ FsmCtxs[1].cur = "CALLING" /\ FsmCtxs[2].cur = "TALKING" /\ FsmCtxs[3].cur = "MAX"
  /\ FsmCtxs[4].event = "HOOK_OFF" /\ FsmCtxs[4].cur = "BE_CALLED" /\ FsmCtxs[4].new = "TALKING"
  /\ FsmCtxs[5].event = "HOOK_OFF" /\ FsmCtxs[5].cur = "MAX" /\ FsmCtxs[5].new = "HOOK_OFF"
  /\ FsmCtxs[6].event = "HOOK_FLASH" /\ FsmCtxs[6].cur = "TALKING" /\ FsmCtxs[6].new = "MAX"
  /\ FsmCtxs[7].event = "HOOK_FLASH" /\ FsmCtxs[7].cur = "MAX" /\ FsmCtxs[7].new = "HOOK_OFF"
  /\ FsmCtxs[8].event = "DTMF_START" /\ FsmCtxs[8].cur = "HOOK_OFF" /\ FsmCtxs[8].new = "DTMF_START"
  /\ FsmCtxs[9].event = "DTMF_END" /\ FsmCtxs[9].cur = "DTMF_START" /\ FsmCtxs[9].new = "DTMF_START"
  /\ FsmCtxs[10].event = "NUM_DONE" /\ FsmCtxs[10].cur = "DTMF_START" /\ FsmCtxs[10].new = "MAX"
  /\ FsmCtxs[11].event = "NUM_CALLED" /\ FsmCtxs[11].cur = "DTMF_START" /\ FsmCtxs[11].new = "CALLING"
  /\ FsmCtxs[12].event = "NUM_CALLED" /\ FsmCtxs[12].cur = "MAX" /\ FsmCtxs[12].new = "MAX"
  /\ FsmCtxs[13].event = "NUM_ERR" /\ FsmCtxs[13].cur = "DTMF_START"
  /\ FsmCtxs[13].new = "CALLING_FAILED"
  /\ FsmCtxs[14].event = "CALLING" /\ FsmCtxs[14].cur = "HOOK_ON" /\ FsmCtxs[14].new = "BE_CALLED"
  /\ FsmCtxs[15].event = "CALLING" /\ FsmCtxs[15].cur = "MAX" /\ FsmCtxs[15].new = "MAX"
  /\ FsmCtxs[16].event = "CALL_ACCEPT" /\ FsmCtxs[16].cur = "CALLING" /\ FsmCtxs[16].new = "TALKING"
  /\ FsmCtxs[17].event = "CALL_DOWN" /\ FsmCtxs[17].cur = "BE_CALLED" /\ FsmCtxs[17].new = "CALL_DOWN"
  /\ FsmCtxs[18].event = "CALL_DOWN" /\ FsmCtxs[18].cur = "TALKING" /\ FsmCtxs[18].new = "CALL_DOWN"
  /\ FsmCtxs[19].event = "CALL_REJECT" /\ FsmCtxs[19].cur = "CALLING"
  /\ FsmCtxs[19].new = "CALL_REJECT"
  BY DEF Rows, FsmCtxs, Row

LEMMA WordsOfRows ==
  /\ RowWords(4) = TalkWords /\ RowWords(16) = TalkWords
  /\ RowWords(14) = <<Number(endpt), Number(456)>>
  /\ \A r \in Rows \ {9, 15} : OfRow(RowWords(r))
<1>. DEFINE one == <<Number(endpt)>>
            two == <<Number(endpt), Number(456)>>
<1>1. OfRow(one) /\ OfRow(two) /\ OfRow(TalkWords)
  BY DEF OfRow, TalkWords
<1>2. \A type : Event(type).type = type
  BY DEF Event
<1>3. ASSUME NEW event, NEW state
      PROVE  ActionData(event, state) =
        CASE event.type = "CALLING" /\ state = "HOOK_ON" -> two
          [] \/ event.type = "HOOK_OFF" /\ state = "BE_CALLED"
             \/ event.type = "CALL_ACCEPT" -> TalkWords
          [] event.type = "DTMF_END" \/ (event.type = "CALLING" /\ state # "HOOK_ON") -> << >>
          [] OTHER -> one
  BY DEF ActionData, TalkWords
<1>. HIDE DEF one, two
<1>4. RowWords(4) = TalkWords /\ RowWords(16) = TalkWords /\ RowWords(14) = two
  <2>1. PICK d, e, f : d = Event("HOOK_OFF") /\ e = Event("CALL_ACCEPT") /\ f = Event("CALLING")
    OBVIOUS
  <2>2. d.type = "HOOK_OFF" /\ e.type = "CALL_ACCEPT" /\ f.type = "CALLING"
    BY <1>2, <2>1
  <2>3. ActionData(d, "BE_CALLED") = TalkWords
    BY <1>3, <2>2
  <2>4. ActionData(e, "CALLING") = TalkWords
    BY <1>3, <2>2
  <2>5. ActionData(f, "HOOK_ON") = two
    BY <1>3, <2>2
  <2>6. QED
    BY <2>1, <2>3, <2>4, <2>5, RowsAre DEF RowWords
<1>5. \A r \in Rows : FsmCtxs[r].event = "DTMF_END" => r = 9
  BY RowsAre
<1>6. \A r \in Rows : FsmCtxs[r].event = "CALLING" /\ FsmCtxs[r].cur # "HOOK_ON" => r = 15
  BY RowsAre
<1>7. ASSUME NEW r \in Rows \ {9, 15}
      PROVE  RowWords(r) \in {one, two, TalkWords}
  BY <1>2, <1>3, <1>5, <1>6 DEF RowWords
<1>8. QED
  BY <1>1, <1>4, <1>7 DEF two

LEMMA RowsNeed ==
  /\ Needs(4) = {"VOIP_RING_STOP", "VOIP_RTP_ACTIVE"}
  /\ Needs(14) = {"VOIP_RING_START"} /\ Needs(16) = {"VOIP_RTP_ACTIVE"}
  /\ Needs(17) = {"VOIP_RING_STOP"} /\ Needs(18) = {"VOIP_RTP_DEACTIVE"}
  /\ \A r \in Rows \ {4, 14, 16, 17, 18} : Needs(r) = {}
<1>1. /\ Needs(4) = {"VOIP_RING_STOP", "VOIP_RTP_ACTIVE"}
      /\ Needs(14) = {"VOIP_RING_START"} /\ Needs(16) = {"VOIP_RTP_ACTIVE"}
      /\ Needs(17) = {"VOIP_RING_STOP"} /\ Needs(18) = {"VOIP_RTP_DEACTIVE"}
  BY RowsAre DEF Needs, Telling
<1>2. ASSUME NEW r \in Rows \ {4, 14, 16, 17, 18}
      PROVE  Needs(r) = {}
  <2>1. /\ FsmCtxs[r].new \notin {"BE_CALLED", "TALKING"} /\ FsmCtxs[r].cur # "BE_CALLED"
        /\ ~ (FsmCtxs[r].event = "CALL_DOWN" /\ FsmCtxs[r].cur = "TALKING")
    BY RowsAre
  <2>2. QED
    BY <2>1 DEF Needs
<1>3. QED
  BY <1>1, <1>2

(* The actions, handler by handler.                                        *)
LEMMA ActionsAre ==
  /\ Len(OffHook) = 3 /\ OffHook[1] = Slic(4) /\ OffHook[2] = Slic(2)
     /\ OffHook[3] = Tone(4, 200)
  /\ Len(OnHook) = 2 /\ OnHook[1] = Slic(3) /\ OnHook[2] = Tone(0, 200)
  /\ Len(Calling) = 3 /\ Calling[1] = Handler("VOIP_CHANNEL_OPEN", OpenArgs)
     /\ Calling[2] = Slic(2) /\ Calling[3] = Tone(2, 100)
  /\ Len(CallingFailed) = 1 /\ CallingFailed[1] = Tone(4, 100)
  /\ Len(Talking) = 3 /\ Talking[1] = Slic(2) /\ Talking[2] = Tone(0, 200)
     /\ Talking[3] = Handler("VOIP_RTP_ACTIVE", Silent)
  /\ Len(BeCalled) = 5 /\ BeCalled[1] = Handler("VOIP_CHANNEL_OPEN", OpenArgs)
     /\ BeCalled[2] = Slic(4) /\ BeCalled[3] = Handler("VOIP_CID_PLAY", <<Text("hzg")>>)
     /\ BeCalled[4] = Slic(2) /\ BeCalled[5] = Handler("VOIP_RING_START", <<Number(0)>>)
  /\ Len(AcceptCall) = 5 /\ AcceptCall[1] = Slic(2)
     /\ AcceptCall[2] = Handler("VOIP_RING_STOP", Silent) /\ AcceptCall[3] = Slic(2)
     /\ AcceptCall[4] = Tone(0, 200) /\ AcceptCall[5] = Handler("VOIP_RTP_ACTIVE", Silent)
  /\ Len(BeOnHook) = 3 /\ BeOnHook[1] = Handler("VOIP_RTP_DEACTIVE", Silent)
     /\ BeOnHook[2] = Slic(4) /\ BeOnHook[3] = Tone(1, 200)
  /\ Len(MissCall) = 2 /\ MissCall[1] = Slic(4)
     /\ MissCall[2] = Handler("VOIP_RING_STOP", Silent)
  /\ Len(KeyTones) = 6 /\ KeyTones[1] = Tone(0, 200) /\ KeyTones[2] = Tone(1, 200)
     /\ KeyTones[3] = Tone(2, 200) /\ KeyTones[4] = Tone(3, 200) /\ KeyTones[5] = Tone(4, 200)
     /\ KeyTones[6] = Tone(10, 200)
  BY DEF OffHook, OnHook, Calling, CallingFailed, Talking, BeCalled, AcceptCall, BeOnHook, MissCall, KeyTones

LEMMA CmdsAre ==
  /\ \A c : Slic(c).cmd = "VOIP_SLIC_CONTROL"
  /\ \A tone, time : Tone(tone, time).cmd = "VOIP_TONE_PLAY"
  /\ \A cmd, data : Handler(cmd, data).cmd = cmd
  BY DEF Slic, Tone, Handler

LEMMA ActionsTell ==
  /\ Tells(OffHook) = {}
  /\ Tells(OnHook) = {}
  /\ Tells(Calling) = {}
  /\ Tells(CallingFailed) = {}
  /\ Tells(Talking) = {"VOIP_RTP_ACTIVE"}
  /\ Tells(BeCalled) = {"VOIP_RING_START"}
  /\ Tells(AcceptCall) = {"VOIP_RING_STOP", "VOIP_RTP_ACTIVE"}
  /\ Tells(BeOnHook) = {"VOIP_RTP_DEACTIVE"}
  /\ Tells(MissCall) = {"VOIP_RING_STOP"}
  /\ Tells(KeyTones) = {}
<1>1. Tells(OffHook) = {}
  <2>1. \A c : Has(OffHook, 3, c) <=> OffHook[1].cmd = c \/ OffHook[2].cmd = c \/ OffHook[3].cmd = c
    <3>1. \A i : i \in 1 .. 3 <=> i = 1 \/ i = 2 \/ i = 3
      OBVIOUS
    <3>2. QED
      BY <3>1 DEF Has
  <2>2. QED
    BY <2>1, ActionsAre, CmdsAre DEF Tells, Telling
<1>2. Tells(OnHook) = {}
  <2>1. \A c : Has(OnHook, 2, c) <=> OnHook[1].cmd = c \/ OnHook[2].cmd = c
    <3>1. \A i : i \in 1 .. 2 <=> i = 1 \/ i = 2
      OBVIOUS
    <3>2. QED
      BY <3>1 DEF Has
  <2>2. QED
    BY <2>1, ActionsAre, CmdsAre DEF Tells, Telling
<1>3. Tells(Calling) = {}
  <2>1. \A c : Has(Calling, 3, c) <=> Calling[1].cmd = c \/ Calling[2].cmd = c \/ Calling[3].cmd = c
    <3>1. \A i : i \in 1 .. 3 <=> i = 1 \/ i = 2 \/ i = 3
      OBVIOUS
    <3>2. QED
      BY <3>1 DEF Has
  <2>2. QED
    BY <2>1, ActionsAre, CmdsAre DEF Tells, Telling
<1>4. Tells(CallingFailed) = {}
  <2>1. \A c : Has(CallingFailed, 1, c) <=> CallingFailed[1].cmd = c
    <3>1. \A i : i \in 1 .. 1 <=> i = 1
      OBVIOUS
    <3>2. QED
      BY <3>1 DEF Has
  <2>2. QED
    BY <2>1, ActionsAre, CmdsAre DEF Tells, Telling
<1>5. Tells(Talking) = {"VOIP_RTP_ACTIVE"}
  <2>1. \A c : Has(Talking, 3, c) <=> Talking[1].cmd = c \/ Talking[2].cmd = c \/ Talking[3].cmd = c
    <3>1. \A i : i \in 1 .. 3 <=> i = 1 \/ i = 2 \/ i = 3
      OBVIOUS
    <3>2. QED
      BY <3>1 DEF Has
  <2>2. QED
    BY <2>1, ActionsAre, CmdsAre DEF Tells, Telling
<1>6. Tells(BeCalled) = {"VOIP_RING_START"}
  <2>1. \A c : Has(BeCalled, 5, c) <=> BeCalled[1].cmd = c \/ BeCalled[2].cmd = c \/ BeCalled[3].cmd = c \/ BeCalled[4].cmd = c \/ BeCalled[5].cmd = c
    <3>1. \A i : i \in 1 .. 5 <=> i = 1 \/ i = 2 \/ i = 3 \/ i = 4 \/ i = 5
      OBVIOUS
    <3>2. QED
      BY <3>1 DEF Has
  <2>2. QED
    BY <2>1, ActionsAre, CmdsAre DEF Tells, Telling
<1>7. Tells(AcceptCall) = {"VOIP_RING_STOP", "VOIP_RTP_ACTIVE"}
  <2>1. \A c : Has(AcceptCall, 5, c) <=> AcceptCall[1].cmd = c \/ AcceptCall[2].cmd = c \/ AcceptCall[3].cmd = c \/ AcceptCall[4].cmd = c \/ AcceptCall[5].cmd = c
    <3>1. \A i : i \in 1 .. 5 <=> i = 1 \/ i = 2 \/ i = 3 \/ i = 4 \/ i = 5
      OBVIOUS
    <3>2. QED
      BY <3>1 DEF Has
  <2>2. QED
    BY <2>1, ActionsAre, CmdsAre DEF Tells, Telling
<1>8. Tells(BeOnHook) = {"VOIP_RTP_DEACTIVE"}
  <2>1. \A c : Has(BeOnHook, 3, c) <=> BeOnHook[1].cmd = c \/ BeOnHook[2].cmd = c \/ BeOnHook[3].cmd = c
    <3>1. \A i : i \in 1 .. 3 <=> i = 1 \/ i = 2 \/ i = 3
      OBVIOUS
    <3>2. QED
      BY <3>1 DEF Has
  <2>2. QED
    BY <2>1, ActionsAre, CmdsAre DEF Tells, Telling
<1>9. Tells(MissCall) = {"VOIP_RING_STOP"}
  <2>1. \A c : Has(MissCall, 2, c) <=> MissCall[1].cmd = c \/ MissCall[2].cmd = c
    <3>1. \A i : i \in 1 .. 2 <=> i = 1 \/ i = 2
      OBVIOUS
    <3>2. QED
      BY <3>1 DEF Has
  <2>2. QED
    BY <2>1, ActionsAre, CmdsAre DEF Tells, Telling
<1>10. Tells(KeyTones) = {}
  <2>1. \A c : Has(KeyTones, 6, c) <=> KeyTones[1].cmd = c \/ KeyTones[2].cmd = c \/ KeyTones[3].cmd = c \/ KeyTones[4].cmd = c \/ KeyTones[5].cmd = c \/ KeyTones[6].cmd = c
    <3>1. \A i : i \in 1 .. 6 <=> i = 1 \/ i = 2 \/ i = 3 \/ i = 4 \/ i = 5 \/ i = 6
      OBVIOUS
    <3>2. QED
      BY <3>1 DEF Has
  <2>2. QED
    BY <2>1, ActionsAre, CmdsAre DEF Tells, Telling
<1>11. QED
  BY <1>1, <1>2, <1>3, <1>4, <1>5, <1>6, <1>7, <1>8, <1>9, <1>10

LEMMA ActionsSend ==
  ASSUME NEW words, OfRow(words)
  PROVE  /\ AllSend(OffHook, words)
         /\ AllSend(OnHook, words)
         /\ AllSend(Calling, words)
         /\ AllSend(CallingFailed, words)
         /\ AllSend(BeOnHook, words)
         /\ AllSend(MissCall, words)
         /\ AllSend(KeyTones, words)
<1>1. AllSend(OffHook, words)
  <2>1. Sends(OffHook[1], words) /\ Sends(OffHook[2], words) /\ Sends(OffHook[3], words)
    BY ActionsAre, OwnSends
  <2>2. \A i \in 1 .. 3 : i = 1 \/ i = 2 \/ i = 3
    OBVIOUS
  <2>3. QED
    BY <2>1, <2>2, ActionsAre DEF AllSend
<1>2. AllSend(OnHook, words)
  <2>1. Sends(OnHook[1], words) /\ Sends(OnHook[2], words)
    BY ActionsAre, OwnSends
  <2>2. \A i \in 1 .. 2 : i = 1 \/ i = 2
    OBVIOUS
  <2>3. QED
    BY <2>1, <2>2, ActionsAre DEF AllSend
<1>3. AllSend(Calling, words)
  <2>1. Sends(Calling[1], words) /\ Sends(Calling[2], words) /\ Sends(Calling[3], words)
    BY ActionsAre, OwnSends
  <2>2. \A i \in 1 .. 3 : i = 1 \/ i = 2 \/ i = 3
    OBVIOUS
  <2>3. QED
    BY <2>1, <2>2, ActionsAre DEF AllSend
<1>4. AllSend(CallingFailed, words)
  <2>1. Sends(CallingFailed[1], words)
    BY ActionsAre, OwnSends
  <2>2. \A i \in 1 .. 1 : i = 1
    OBVIOUS
  <2>3. QED
    BY <2>1, <2>2, ActionsAre DEF AllSend
<1>5. AllSend(BeOnHook, words)
  <2>1. Sends(BeOnHook[1], words) /\ Sends(BeOnHook[2], words) /\ Sends(BeOnHook[3], words)
    BY ActionsAre, OwnSends
  <2>2. \A i \in 1 .. 3 : i = 1 \/ i = 2 \/ i = 3
    OBVIOUS
  <2>3. QED
    BY <2>1, <2>2, ActionsAre DEF AllSend
<1>6. AllSend(MissCall, words)
  <2>1. Sends(MissCall[1], words) /\ Sends(MissCall[2], words)
    BY ActionsAre, OwnSends
  <2>2. \A i \in 1 .. 2 : i = 1 \/ i = 2
    OBVIOUS
  <2>3. QED
    BY <2>1, <2>2, ActionsAre DEF AllSend
<1>7. AllSend(KeyTones, words)
  <2>1. Sends(KeyTones[1], words) /\ Sends(KeyTones[2], words) /\ Sends(KeyTones[3], words) /\ Sends(KeyTones[4], words) /\ Sends(KeyTones[5], words) /\ Sends(KeyTones[6], words)
    BY ActionsAre, OwnSends
  <2>2. \A i \in 1 .. 6 : i = 1 \/ i = 2 \/ i = 3 \/ i = 4 \/ i = 5 \/ i = 6
    OBVIOUS
  <2>3. QED
    BY <2>1, <2>2, ActionsAre DEF AllSend
<1>8. QED
  BY <1>1, <1>2, <1>3, <1>4, <1>5, <1>6, <1>7

(* Those for a call need the words of their rows.                          *)
LEMMA CallsSend ==
  /\ AllSend(Talking, TalkWords)
  /\ AllSend(AcceptCall, TalkWords)
  /\ AllSend(BeCalled, <<Number(endpt), Number(456)>>)
<1>0. OfRow(TalkWords) /\ OfRow(<<Number(endpt), Number(456)>>)
  BY DEF OfRow, TalkWords
<1>1. AllSend(Talking, TalkWords)
  <2>1. /\ Sends(Talking[1], TalkWords)
        /\ Sends(Talking[2], TalkWords)
        /\ Sends(Talking[3], TalkWords)
    BY <1>0, ActionsAre, OwnSends, TalkSends
  <2>2. \A i \in 1 .. 3 : i = 1 \/ i = 2 \/ i = 3
    OBVIOUS
  <2>3. QED
    BY <2>1, <2>2, ActionsAre DEF AllSend
<1>2. AllSend(AcceptCall, TalkWords)
  <2>1. /\ Sends(AcceptCall[1], TalkWords)
        /\ Sends(AcceptCall[2], TalkWords)
        /\ Sends(AcceptCall[3], TalkWords)
        /\ Sends(AcceptCall[4], TalkWords)
        /\ Sends(AcceptCall[5], TalkWords)
    BY <1>0, ActionsAre, OwnSends, TalkSends
  <2>2. \A i \in 1 .. 5 : i = 1 \/ i = 2 \/ i = 3 \/ i = 4 \/ i = 5
    OBVIOUS
  <2>3. QED
    BY <2>1, <2>2, ActionsAre DEF AllSend
<1>3. AllSend(BeCalled, <<Number(endpt), Number(456)>>)
  <2>1. /\ Sends(BeCalled[1], <<Number(endpt), Number(456)>>)
        /\ Sends(BeCalled[2], <<Number(endpt), Number(456)>>)
        /\ Sends(BeCalled[3], <<Number(endpt), Number(456)>>)
        /\ Sends(BeCalled[4], <<Number(endpt), Number(456)>>)
        /\ Sends(BeCalled[5], <<Number(endpt), Number(456)>>)
    BY <1>0, ActionsAre, OwnSends, CidSends
  <2>2. \A i \in 1 .. 5 : i = 1 \/ i = 2 \/ i = 3 \/ i = 4 \/ i = 5
    OBVIOUS
  <2>3. QED
    BY <2>1, <2>2, ActionsAre DEF AllSend
<1>4. QED
  BY <1>1, <1>2, <1>3

LEMMA SuitsWhen ==
  ASSUME NEW handlers \in Seq(RUNNABLE), NEW r \in Rows, Tells(handlers) = Needs(r),
         AllSend(handlers, RowWords(r))
  PROVE  Suits(handlers, r)
<1>1. \A c \in Telling : c \in Tells(handlers) <=> Has(handlers, Len(handlers), c)
  BY DEF Tells
<1>2. /\ ~ ({"VOIP_RING_START", "VOIP_RING_STOP"} \subseteq Needs(r))
      /\ ~ ({"VOIP_RTP_ACTIVE", "VOIP_RTP_DEACTIVE"} \subseteq Needs(r))
  BY RowsNeed
<1>3. Orderly(handlers, RowWords(r))
  BY <1>1, <1>2 DEF Orderly, AllSend, Telling
<1>4. QED
  BY <1>3 DEF Suits

(* The actions the rows are built with, and those of the repository's      *)
(* file, where a NUM_CALLED that comes too late runs Calling.              *)
LEMMA ActionsSuit ==
  /\ \A r \in {1, 2, 3} : Suits(OnHook, r)
  /\ Suits(AcceptCall, 4) /\ Suits(OffHook, 5)
  /\ \A r \in {6, 7, 8, 9, 10, 15} : Suits(<< >>, r)
  /\ \A r \in {11, 12} : Suits(Calling, r)
  /\ \A r \in {12, 13, 19} : Suits(CallingFailed, r)
  /\ Suits(BeCalled, 14) /\ Suits(Talking, 16) /\ Suits(MissCall, 17) /\ Suits(BeOnHook, 18)
<1>0. Rows = 1 .. 19 /\ \A r \in Rows \ {9, 15} : OfRow(RowWords(r))
  BY RowsAre, WordsOfRows
<1>1. ASSUME NEW r \in {1, 2, 3}
      PROVE  Suits(OnHook, r)
  <2>1. r \in Rows /\ AllSend(OnHook, RowWords(r)) /\ Needs(r) = {}
    BY <1>0, ActionsSend, RowsNeed
  <2>2. QED
    BY <2>1, SuitsWhen, BuiltInRuns, ActionsTell
<1>2. Suits(AcceptCall, 4)
  <2>1. 4 \in Rows /\ AllSend(AcceptCall, RowWords(4)) /\ Needs(4) = Tells(AcceptCall)
    BY <1>0, CallsSend, WordsOfRows, RowsNeed, ActionsTell
  <2>2. QED
    BY <2>1, SuitsWhen, BuiltInRuns
<1>3. Suits(OffHook, 5)
  <2>1. 5 \in Rows /\ AllSend(OffHook, RowWords(5)) /\ Needs(5) = Tells(OffHook)
    BY <1>0, ActionsSend, RowsNeed, ActionsTell
  <2>2. QED
    BY <2>1, SuitsWhen, BuiltInRuns
<1>4. ASSUME NEW r \in {6, 7, 8, 9, 10, 15}
      PROVE  Suits(<< >>, r)
  <2>1. PICK none : none = << >>
    OBVIOUS
  <2>2. none \in Seq(RUNNABLE) /\ Len(none) = 0
    BY <2>1
  <2>3. Tells(none) = {} /\ AllSend(none, RowWords(r))
    BY <2>2 DEF Tells, Has, AllSend
  <2>4. r \in Rows /\ Needs(r) = {}
    BY <1>0, RowsNeed
  <2>5. Suits(none, r)
    BY <2>2, <2>3, <2>4, SuitsWhen
  <2>6. QED
    BY <2>1, <2>5
<1>5. ASSUME NEW r \in {11, 12}
      PROVE  Suits(Calling, r)
  <2>1. r \in Rows /\ AllSend(Calling, RowWords(r)) /\ Needs(r) = {}
    BY <1>0, ActionsSend, RowsNeed
  <2>2. QED
    BY <2>1, SuitsWhen, BuiltInRuns, ActionsTell
<1>6. ASSUME NEW r \in {12, 13, 19}
      PROVE  Suits(CallingFailed, r)
  <2>1. r \in Rows /\ AllSend(CallingFailed, RowWords(r)) /\ Needs(r) = {}
    BY <1>0, ActionsSend, RowsNeed
  <2>2. QED
    BY <2>1, SuitsWhen, BuiltInRuns, ActionsTell
<1>7. Suits(BeCalled, 14)
  <2>1. 14 \in Rows /\ AllSend(BeCalled, RowWords(14)) /\ Needs(14) = Tells(BeCalled)
    BY <1>0, CallsSend, WordsOfRows, RowsNeed, ActionsTell
  <2>2. QED
    BY <2>1, SuitsWhen, BuiltInRuns
<1>8. Suits(Talking, 16)
  <2>1. 16 \in Rows /\ AllSend(Talking, RowWords(16)) /\ Needs(16) = Tells(Talking)
    BY <1>0, CallsSend, WordsOfRows, RowsNeed, ActionsTell
  <2>2. QED
    BY <2>1, SuitsWhen, BuiltInRuns
<1>9. Suits(MissCall, 17)
  <2>1. 17 \in Rows /\ AllSend(MissCall, RowWords(17)) /\ Needs(17) = Tells(MissCall)
    BY <1>0, ActionsSend, RowsNeed, ActionsTell
  <2>2. QED
    BY <2>1, SuitsWhen, BuiltInRuns
<1>10. Suits(BeOnHook, 18)
  <2>1. 18 \in Rows /\ AllSend(BeOnHook, RowWords(18)) /\ Needs(18) = Tells(BeOnHook)
    BY <1>0, ActionsSend, RowsNeed, ActionsTell
  <2>2. QED
    BY <2>1, SuitsWhen, BuiltInRuns
<1>11. QED
  BY <1>1, <1>2, <1>3, <1>4, <1>5, <1>6, <1>7, <1>8, <1>9, <1>10

-----------------------------------------------------------------------------
(* The tables of quiet times: the actions built in, or those of the        *)
(* repository's file, and the rows that run them.                          *)
VcRows == <<8, 8, 8, 2, 1, 0, 0, 0, 0, 0, 5, 5, 6, 3, 0, 9, 7, 4, 6>>
VcSections == VcAction(Last(Sections("vc_action")).key)

(* The table t that comes of the file f: of a missing one what is built    *)
(* in, of the repository's own what its sections say.                      *)
Armed(t, f) ==
  /\ f \in {"vc_action", "missing"} /\ t.dynamic = << >>
  /\ f = "missing" =>
       /\ t.keys = << >> /\ t.actions = AllActionsDef
       /\ \A r \in Rows : t.rows[r] = FsmCtxs[r].index
  /\ f = "vc_action" =>
       /\ \A k \in DOMAIN t.keys : t.keys[k].index = 10
       /\ Len(t.actions) = 10
       /\ \A i \in 1 .. 10 : t.actions[i].handlers = VcSections[i].cmds
       /\ \A r \in Rows : t.rows[r] = VcRows[r]

LEMMA IndexesAre ==
  /\ FsmCtxs[1].index = 8 /\ FsmCtxs[2].index = 8 /\ FsmCtxs[3].index = 8
  /\ FsmCtxs[4].index = 1 /\ FsmCtxs[5].index = 7
  /\ \A r \in {6, 7, 8, 9, 10, 15} : FsmCtxs[r].index = 0
  /\ FsmCtxs[11].index = 4 /\ FsmCtxs[12].index = 5 /\ FsmCtxs[13].index = 5
  /\ FsmCtxs[14].index = 2 /\ FsmCtxs[16].index = 9 /\ FsmCtxs[17].index = 6
  /\ FsmCtxs[18].index = 3 /\ FsmCtxs[19].index = 5
  BY DEF FsmCtxs, Row, ACCEPT_CALL, BE_CALLED, BE_ON_HOOK, CALLING, CALLING_FAILED, MISS_CALL,
         OFF_HOOK, ON_HOOK, TALKING

LEMMA BuiltInAre ==
  /\ Len(AllActionsDef) = 9
  /\ AllActionsDef[1].handlers = AcceptCall /\ AllActionsDef[2].handlers = BeCalled
  /\ AllActionsDef[3].handlers = BeOnHook /\ AllActionsDef[4].handlers = Calling
  /\ AllActionsDef[5].handlers = CallingFailed /\ AllActionsDef[6].handlers = MissCall
  /\ AllActionsDef[7].handlers = OffHook /\ AllActionsDef[8].handlers = OnHook
  /\ AllActionsDef[9].handlers = Talking
  BY DEF AllActionsDef, Action

LEMMA VcRowsAre ==
  /\ VcRows[1] = 8 /\ VcRows[2] = 8 /\ VcRows[3] = 8 /\ VcRows[4] = 2 /\ VcRows[5] = 1
  /\ \A r \in {6, 7, 8, 9, 10, 15} : VcRows[r] = 0
  /\ VcRows[11] = 5 /\ VcRows[12] = 5 /\ VcRows[13] = 6 /\ VcRows[14] = 3 /\ VcRows[16] = 9
  /\ VcRows[17] = 7 /\ VcRows[18] = 4 /\ VcRows[19] = 6
  BY DEF VcRows

LEMMA KeyTonesRun ==
  /\ KeyTones \in Seq(RUNNABLE) /\ Len(KeyTones) = 6
  /\ \A words : OfRow(words) => AllSend(KeyTones, words)
  /\ Tells(KeyTones) = {} /\ KeyTones # << >>
<1>1. /\ Tone(0, 200) \in RUNNABLE /\ Tone(1, 200) \in RUNNABLE /\ Tone(2, 200) \in RUNNABLE
      /\ Tone(3, 200) \in RUNNABLE /\ Tone(4, 200) \in RUNNABLE /\ Tone(10, 200) \in RUNNABLE
  BY HandlersMade
<1>2. ASSUME NEW a \in RUNNABLE, NEW b \in RUNNABLE, NEW c \in RUNNABLE, NEW d \in RUNNABLE,
             NEW e \in RUNNABLE, NEW f \in RUNNABLE
      PROVE  <<a, b, c, d, e, f>> \in Seq(RUNNABLE) /\ Len(<<a, b, c, d, e, f>>) = 6
             /\ <<a, b, c, d, e, f>> # << >>
  OBVIOUS
<1>3. KeyTones \in Seq(RUNNABLE) /\ Len(KeyTones) = 6 /\ KeyTones # << >>
  BY <1>1, <1>2, Zenon DEF KeyTones
<1>4. /\ KeyTones[1] = Tone(0, 200) /\ KeyTones[2] = Tone(1, 200) /\ KeyTones[3] = Tone(2, 200)
      /\ KeyTones[4] = Tone(3, 200) /\ KeyTones[5] = Tone(4, 200) /\ KeyTones[6] = Tone(10, 200)
  BY DEF KeyTones
<1>5. \A i \in 1 .. 6 : i = 1 \/ i = 2 \/ i = 3 \/ i = 4 \/ i = 5 \/ i = 6
  OBVIOUS
<1>6. \A tone, time : Tone(tone, time).cmd = "VOIP_TONE_PLAY"
  BY DEF Tone, Handler
<1>7. \A i \in 1 .. 6 : KeyTones[i].cmd = "VOIP_TONE_PLAY"
  BY <1>4, <1>5, <1>6
<1>8. ASSUME NEW words, OfRow(words)
      PROVE  AllSend(KeyTones, words)
  <2>1. \A tone, time \in Int : Sends(Tone(tone, time), words)
    BY <1>8, OwnSends
  <2>2. /\ Sends(Tone(0, 200), words) /\ Sends(Tone(1, 200), words) /\ Sends(Tone(2, 200), words)
        /\ Sends(Tone(3, 200), words) /\ Sends(Tone(4, 200), words) /\ Sends(Tone(10, 200), words)
    BY <2>1
  <2>3. \A i \in 1 .. 6 : Sends(KeyTones[i], words)
    BY <2>2, <1>4, <1>5
  <2>4. QED
    BY <1>3, <2>3 DEF AllSend
<1>9. Tells(KeyTones) = {}
  BY <1>3, <1>7 DEF Tells, Has, Telling
<1>10. QED
  BY <1>3, <1>8, <1>9

LEMMA VcSectionsAre ==
  ASSUME NEW key
  PROVE  /\ Len(VcAction(key)) = 10
         /\ VcAction(key)[1].cmds = OffHook /\ VcAction(key)[2].cmds = AcceptCall
         /\ VcAction(key)[3].cmds = BeCalled /\ VcAction(key)[4].cmds = BeOnHook
         /\ VcAction(key)[5].cmds = Calling /\ VcAction(key)[6].cmds = CallingFailed
         /\ VcAction(key)[7].cmds = MissCall /\ VcAction(key)[8].cmds = OnHook
         /\ VcAction(key)[9].cmds = Talking /\ VcAction(key)[10].cmds = KeyTones
         /\ \A i \in 1 .. 9 : VcAction(key)[i].key = << >>
         /\ VcAction(key)[10].key = key
         /\ VcAction(key)[1].pairs = <<<<"HOOK_OFF", "MAX">>>>
         /\ VcAction(key)[2].pairs = <<<<"HOOK_OFF", "BE_CALLED">>>>
         /\ VcAction(key)[3].pairs = <<<<"CALLING", "HOOK_ON">>>>
         /\ VcAction(key)[4].pairs = <<<<"CALL_DOWN", "TALKING">>>>
         /\ VcAction(key)[5].pairs = <<<<"NUM_CALLED", "DTMF_START">>>>
         /\ VcAction(key)[6].pairs = <<<<"NUM_ERR", "DTMF_START">>, <<"CALL_REJECT", "CALLING">>>>
         /\ VcAction(key)[7].pairs = <<<<"CALL_DOWN", "BE_CALLED">>>>
         /\ VcAction(key)[8].pairs = <<<<"HOOK_ON", "MAX">>>>
         /\ VcAction(key)[9].pairs = <<<<"CALL_ACCEPT", "CALLING">>>>
<1>. DEFINE v == VcAction(key)
<1>1. ASSUME NEW name, NEW k, NEW pairs, NEW cmds
      PROVE  /\ Section(name, k, pairs, cmds).cmds = cmds /\ Section(name, k, pairs, cmds).key = k
             /\ Section(name, k, pairs, cmds).pairs = pairs
  BY DEF Section
<1>2. /\ Len(v) = 10
      /\ v[1] = Section("OffHook", << >>, <<<<"HOOK_OFF", "MAX">>>>, OffHook)
      /\ v[2] = Section("AcceptCall", << >>, <<<<"HOOK_OFF", "BE_CALLED">>>>, AcceptCall)
      /\ v[3] = Section("BeCalled", << >>, <<<<"CALLING", "HOOK_ON">>>>, BeCalled)
      /\ v[4] = Section("BeOnHook", << >>, <<<<"CALL_DOWN", "TALKING">>>>, BeOnHook)
      /\ v[5] = Section("Calling", << >>, <<<<"NUM_CALLED", "DTMF_START">>>>, Calling)
      /\ v[6] = Section("CallingFailed", << >>,
                        <<<<"NUM_ERR", "DTMF_START">>, <<"CALL_REJECT", "CALLING">>>>,
                        CallingFailed)
      /\ v[7] = Section("MissCall", << >>, <<<<"CALL_DOWN", "BE_CALLED">>>>, MissCall)
      /\ v[8] = Section("OnHook", << >>, <<<<"HOOK_ON", "MAX">>>>, OnHook)
      /\ v[9] = Section("Talking", << >>, <<<<"CALL_ACCEPT", "CALLING">>>>, Talking)
      /\ v[10] = Section("Key*01", key, << >>, KeyTones)
  BY DEF VcAction
<1>. HIDE DEF v
<1>3. \A i \in 1 .. 9 : i = 1 \/ i = 2 \/ i = 3 \/ i = 4 \/ i = 5 \/ i = 6 \/ i = 7 \/ i = 8 \/ i = 9
  OBVIOUS
<1>4. /\ v[1].key = << >> /\ v[2].key = << >> /\ v[3].key = << >> /\ v[4].key = << >>
      /\ v[5].key = << >> /\ v[6].key = << >> /\ v[7].key = << >> /\ v[8].key = << >>
      /\ v[9].key = << >> /\ v[10].key = key
  BY <1>1, <1>2
<1>5. \A i \in 1 .. 9 : v[i].key = << >>
  BY <1>3, <1>4
<1>6. /\ v[1].cmds = OffHook /\ v[2].cmds = AcceptCall /\ v[3].cmds = BeCalled
      /\ v[4].cmds = BeOnHook /\ v[5].cmds = Calling /\ v[6].cmds = CallingFailed
      /\ v[7].cmds = MissCall /\ v[8].cmds = OnHook /\ v[9].cmds = Talking /\ v[10].cmds = KeyTones
  BY <1>1, <1>2
<1>7. /\ v[1].pairs = <<<<"HOOK_OFF", "MAX">>>> /\ v[2].pairs = <<<<"HOOK_OFF", "BE_CALLED">>>>
      /\ v[3].pairs = <<<<"CALLING", "HOOK_ON">>>> /\ v[4].pairs = <<<<"CALL_DOWN", "TALKING">>>>
      /\ v[5].pairs = <<<<"NUM_CALLED", "DTMF_START">>>>
      /\ v[6].pairs = <<<<"NUM_ERR", "DTMF_START">>, <<"CALL_REJECT", "CALLING">>>>
      /\ v[7].pairs = <<<<"CALL_DOWN", "BE_CALLED">>>> /\ v[8].pairs = <<<<"HOOK_ON", "MAX">>>>
      /\ v[9].pairs = <<<<"CALL_ACCEPT", "CALLING">>>>
  BY <1>1, <1>2
<1>8. QED
  BY <1>2, <1>4, <1>5, <1>6, <1>7 DEF v

(* Every row of such a table runs an action that suits it, and a key, the  *)
(* tones.                                                                  *)
RunsSuited(t, r) ==
  \/ t.rows[r] = 0 /\ Suits(<< >>, r)
  \/ /\ t.rows[r] \in Nat \ {0} /\ ~ NoAction(t, t.rows[r])
     /\ Suits(t.actions[t.rows[r]].handlers, r)

(* What the k-th key that a file names runs.                               *)
RunsTones(t, k) ==
  /\ t.keys[k].index = 10 /\ ~ NoAction(t, 10)
  /\ t.actions[10].handlers = KeyTones

LEMMA RunnableIsAction == NoHandlers \notin Seq(RUNNABLE)
<1>1. NoHandlers[1].cmd = "NULL" /\ Len(NoHandlers) = 1
  BY DEF NoHandlers, Handler
<1>2. "NULL" \notin HandledCmds
  BY DEF HandledCmds, SendSubcmds
<1>3. SUFFICES ASSUME NoHandlers \in Seq(RUNNABLE) PROVE FALSE
  OBVIOUS
<1>4. NoHandlers[1] \in RUNNABLE
  BY <1>1, <1>3
<1>5. QED
  BY <1>1, <1>2, <1>4 DEF RUNNABLE

HasAction(t, i, handlers) ==
  i \in Nat \ {0} /\ ~ NoAction(t, i) /\ t.actions[i].handlers = handlers

LEMMA SuitedRuns ==
  ASSUME NEW t, NEW r, NEW i, t.rows[r] = i, NEW handlers, HasAction(t, i, handlers),
         Suits(handlers, r)
  PROVE  RunsSuited(t, r)
  BY DEF RunsSuited, HasAction

LEMMA ArmedRuns ==
  ASSUME NEW t, NEW f, Armed(t, f)
  PROVE  /\ \A r \in Rows : RunsSuited(t, r)
         /\ \A k \in DOMAIN t.keys : RunsTones(t, k)
<1>1. \A r \in Rows : \/ r \in {1, 2, 3} \/ r \in {6, 7, 8, 9, 10, 15} \/ r = 4 \/ r = 5 \/ r = 11
                      \/ r = 12 \/ r = 13 \/ r = 14 \/ r = 16 \/ r = 17 \/ r = 18 \/ r = 19
  BY RowsAre
<1>2. CASE f = "missing"
  <2>1. /\ t.keys = << >> /\ Len(t.actions) = 9 /\ t.actions[1].handlers = AcceptCall
        /\ t.actions[2].handlers = BeCalled /\ t.actions[3].handlers = BeOnHook
        /\ t.actions[4].handlers = Calling /\ t.actions[5].handlers = CallingFailed
        /\ t.actions[6].handlers = MissCall /\ t.actions[7].handlers = OffHook
        /\ t.actions[8].handlers = OnHook /\ t.actions[9].handlers = Talking
    BY <1>2, BuiltInAre DEF Armed
  <2>10. /\ HasAction(t, 1, AcceptCall) /\ HasAction(t, 2, BeCalled) /\ HasAction(t, 3, BeOnHook)
         /\ HasAction(t, 4, Calling) /\ HasAction(t, 5, CallingFailed)
         /\ HasAction(t, 6, MissCall) /\ HasAction(t, 7, OffHook) /\ HasAction(t, 8, OnHook)
         /\ HasAction(t, 9, Talking)
    <3>1. HasAction(t, 1, AcceptCall)
      BY <2>1, RunnableIsAction, BuiltInRuns DEF HasAction, NoAction
    <3>2. HasAction(t, 2, BeCalled)
      BY <2>1, RunnableIsAction, BuiltInRuns DEF HasAction, NoAction
    <3>3. HasAction(t, 3, BeOnHook)
      BY <2>1, RunnableIsAction, BuiltInRuns DEF HasAction, NoAction
    <3>4. HasAction(t, 4, Calling)
      BY <2>1, RunnableIsAction, BuiltInRuns DEF HasAction, NoAction
    <3>5. HasAction(t, 5, CallingFailed)
      BY <2>1, RunnableIsAction, BuiltInRuns DEF HasAction, NoAction
    <3>6. HasAction(t, 6, MissCall)
      BY <2>1, RunnableIsAction, BuiltInRuns DEF HasAction, NoAction
    <3>7. HasAction(t, 7, OffHook)
      BY <2>1, RunnableIsAction, BuiltInRuns DEF HasAction, NoAction
    <3>8. HasAction(t, 8, OnHook)
      BY <2>1, RunnableIsAction, BuiltInRuns DEF HasAction, NoAction
    <3>9. HasAction(t, 9, Talking)
      BY <2>1, RunnableIsAction, BuiltInRuns DEF HasAction, NoAction
    <3>10. QED
      BY <3>1, <3>2, <3>3, <3>4, <3>5, <3>6, <3>7, <3>8, <3>9
  <2>2. \A r \in Rows : t.rows[r] = FsmCtxs[r].index
    BY <1>2 DEF Armed
  <2>3. ASSUME NEW r \in {1, 2, 3}
        PROVE  RunsSuited(t, r)
    <3>1. t.rows[r] = 8 /\ Suits(OnHook, r)
      BY <2>2, IndexesAre, RowsAre, ActionsSuit
    <3>2. QED
      BY <2>10, <3>1, SuitedRuns
  <2>4. ASSUME NEW r \in {6, 7, 8, 9, 10, 15}
        PROVE  RunsSuited(t, r)
    <3>1. t.rows[r] = 0 /\ Suits(<< >>, r)
      BY <2>2, IndexesAre, RowsAre, ActionsSuit
    <3>2. QED
      BY <3>1 DEF RunsSuited
  <2>5. /\ t.rows[4] = 1 /\ t.rows[5] = 7 /\ t.rows[11] = 4 /\ t.rows[12] = 5 /\ t.rows[13] = 5
        /\ t.rows[14] = 2 /\ t.rows[16] = 9 /\ t.rows[17] = 6 /\ t.rows[18] = 3 /\ t.rows[19] = 5
    BY <2>2, IndexesAre, RowsAre
  <2>6. RunsSuited(t, 4) /\ RunsSuited(t, 5) /\ RunsSuited(t, 11)
    BY <2>10, <2>5, ActionsSuit, SuitedRuns
  <2>7. RunsSuited(t, 12) /\ RunsSuited(t, 13) /\ RunsSuited(t, 19)
    BY <2>10, <2>5, ActionsSuit, SuitedRuns
  <2>8. RunsSuited(t, 14) /\ RunsSuited(t, 16) /\ RunsSuited(t, 17) /\ RunsSuited(t, 18)
    BY <2>10, <2>5, ActionsSuit, SuitedRuns
  <2>9. DOMAIN t.keys = {}
    BY <2>1
  <2>11. QED
    BY <1>1, <2>3, <2>4, <2>6, <2>7, <2>8, <2>9
<1>3. CASE f = "vc_action"
  <2>1. /\ Len(t.actions) = 10 /\ t.actions[1].handlers = OffHook
        /\ t.actions[2].handlers = AcceptCall /\ t.actions[3].handlers = BeCalled
        /\ t.actions[4].handlers = BeOnHook /\ t.actions[5].handlers = Calling
        /\ t.actions[6].handlers = CallingFailed /\ t.actions[7].handlers = MissCall
        /\ t.actions[8].handlers = OnHook /\ t.actions[9].handlers = Talking
        /\ t.actions[10].handlers = KeyTones
    <3>1. Len(t.actions) = 10 /\ \A i \in 1 .. 10 : t.actions[i].handlers = VcSections[i].cmds
      BY <1>3 DEF Armed
    <3>2. /\ VcSections[1].cmds = OffHook /\ VcSections[2].cmds = AcceptCall
          /\ VcSections[3].cmds = BeCalled /\ VcSections[4].cmds = BeOnHook
          /\ VcSections[5].cmds = Calling /\ VcSections[6].cmds = CallingFailed
          /\ VcSections[7].cmds = MissCall /\ VcSections[8].cmds = OnHook
          /\ VcSections[9].cmds = Talking /\ VcSections[10].cmds = KeyTones
      BY VcSectionsAre DEF VcSections
    <3>3. QED
      BY <3>1, <3>2
  <2>10. /\ HasAction(t, 1, OffHook) /\ HasAction(t, 2, AcceptCall) /\ HasAction(t, 3, BeCalled)
         /\ HasAction(t, 4, BeOnHook) /\ HasAction(t, 5, Calling)
         /\ HasAction(t, 6, CallingFailed) /\ HasAction(t, 7, MissCall)
         /\ HasAction(t, 8, OnHook) /\ HasAction(t, 9, Talking)
    <3>1. HasAction(t, 1, OffHook)
      BY <2>1, RunnableIsAction, BuiltInRuns DEF HasAction, NoAction
    <3>2. HasAction(t, 2, AcceptCall)
      BY <2>1, RunnableIsAction, BuiltInRuns DEF HasAction, NoAction
    <3>3. HasAction(t, 3, BeCalled)
      BY <2>1, RunnableIsAction, BuiltInRuns DEF HasAction, NoAction
    <3>4. HasAction(t, 4, BeOnHook)
      BY <2>1, RunnableIsAction, BuiltInRuns DEF HasAction, NoAction
    <3>5. HasAction(t, 5, Calling)
      BY <2>1, RunnableIsAction, BuiltInRuns DEF HasAction, NoAction
    <3>6. HasAction(t, 6, CallingFailed)
      BY <2>1, RunnableIsAction, BuiltInRuns DEF HasAction, NoAction
    <3>7. HasAction(t, 7, MissCall)
      BY <2>1, RunnableIsAction, BuiltInRuns DEF HasAction, NoAction
    <3>8. HasAction(t, 8, OnHook)
      BY <2>1, RunnableIsAction, BuiltInRuns DEF HasAction, NoAction
    <3>9. HasAction(t, 9, Talking)
      BY <2>1, RunnableIsAction, BuiltInRuns DEF HasAction, NoAction
    <3>10. QED
      BY <3>1, <3>2, <3>3, <3>4, <3>5, <3>6, <3>7, <3>8, <3>9
  <2>2. \A r \in Rows : t.rows[r] = VcRows[r]
    BY <1>3 DEF Armed
  <2>3. ASSUME NEW r \in {1, 2, 3}
        PROVE  RunsSuited(t, r)
    <3>1. t.rows[r] = 8 /\ Suits(OnHook, r)
      BY <2>2, VcRowsAre, RowsAre, ActionsSuit
    <3>2. QED
      BY <2>10, <3>1, SuitedRuns
  <2>4. ASSUME NEW r \in {6, 7, 8, 9, 10, 15}
        PROVE  RunsSuited(t, r)
    <3>1. t.rows[r] = 0 /\ Suits(<< >>, r)
      BY <2>2, VcRowsAre, RowsAre, ActionsSuit
    <3>2. QED
      BY <3>1 DEF RunsSuited
  <2>5. /\ t.rows[4] = 2 /\ t.rows[5] = 1 /\ t.rows[11] = 5 /\ t.rows[12] = 5 /\ t.rows[13] = 6
        /\ t.rows[14] = 3 /\ t.rows[16] = 9 /\ t.rows[17] = 7 /\ t.rows[18] = 4 /\ t.rows[19] = 6
    BY <2>2, VcRowsAre, RowsAre
  <2>6. RunsSuited(t, 4) /\ RunsSuited(t, 5) /\ RunsSuited(t, 11)
    BY <2>10, <2>5, ActionsSuit, SuitedRuns
  <2>7. RunsSuited(t, 12) /\ RunsSuited(t, 13) /\ RunsSuited(t, 19)
    BY <2>10, <2>5, ActionsSuit, SuitedRuns
  <2>8. RunsSuited(t, 14) /\ RunsSuited(t, 16) /\ RunsSuited(t, 17) /\ RunsSuited(t, 18)
    BY <2>10, <2>5, ActionsSuit, SuitedRuns
  <2>9. \A k \in DOMAIN t.keys : RunsTones(t, k)
    <3>1. \A k \in DOMAIN t.keys : t.keys[k].index = 10
      BY <1>3 DEF Armed
    <3>2. KeyTones # NoHandlers
      BY KeyTonesRun, RunnableIsAction
    <3>3. QED
      BY <2>1, <3>1, <3>2 DEF RunsTones, NoAction
  <2>11. QED
    BY <1>1, <2>3, <2>4, <2>6, <2>7, <2>8, <2>9
<1>4. QED
  BY <1>2, <1>3 DEF Armed

-----------------------------------------------------------------------------
(* Loading the repository's file, section by section.                      *)
Reaches(event, state, R) ==
  /\ R # {}
  /\ \/ state = "MAX" /\ R = {r \in Rows : FsmCtxs[r].event = event}
     \/ state # "MAX" /\ R = ExactRow(event, state)

(* The rows R of t are given the action index.                             *)
Gives(t, u, R, index) ==
  /\ u.actions = t.actions /\ u.dynamic = t.dynamic /\ u.keys = t.keys
  /\ \A r \in Rows : (r \in R => u.rows[r] = index) /\ (r \notin R => u.rows[r] = t.rows[r])

LEMMA Given ==
  ASSUME NEW t \in TABLE, NEW event, NEW state, NEW R, Reaches(event, state, R), NEW index
  PROVE  Gives(t, RegisterAction(t, event, state, index), R, index)
<1>. DEFINE u == RegisterAction(t, event, state, index)
<1>1. ASSUME NEW rows, u = [t EXCEPT !.rows = rows]
      PROVE  u.actions = t.actions /\ u.dynamic = t.dynamic /\ u.keys = t.keys /\ u.rows = rows
  <2>. HIDE DEF u
  <2>1. QED
    BY <1>1 DEF TABLE
<1>2. CASE state = "MAX" /\ R = {r \in Rows : FsmCtxs[r].event = event}
  <2>. DEFINE rows == [r \in Rows |-> IF FsmCtxs[r].event = event THEN index ELSE t.rows[r]]
  <2>1. u = [t EXCEPT !.rows = rows]
    BY <1>2 DEF RegisterAction, UpdateActionIdxByEvent, TABLE
  <2>2. \A r \in Rows : (r \in R => rows[r] = index) /\ (r \notin R => rows[r] = t.rows[r])
    BY <1>2
  <2>. HIDE DEF rows, u
  <2>3. Gives(t, u, R, index)
    BY <1>1, <2>1, <2>2 DEF Gives
  <2>4. QED
    BY <2>3 DEF u
<1>3. CASE state # "MAX" /\ R = ExactRow(event, state)
  <2>. DEFINE rows == [r \in Rows |-> IF r \in R THEN index ELSE t.rows[r]]
  <2>1. u = [t EXCEPT !.rows = rows]
    BY <1>3 DEF RegisterAction, TABLE, Reaches
  <2>2. \A r \in Rows : (r \in R => rows[r] = index) /\ (r \notin R => rows[r] = t.rows[r])
    OBVIOUS
  <2>. HIDE DEF rows, u
  <2>3. Gives(t, u, R, index)
    BY <1>1, <2>1, <2>2 DEF Gives
  <2>4. QED
    BY <2>3 DEF u
<1>4. QED
  BY <1>2, <1>3 DEF Reaches

LEMMA RowsReached ==
  /\ Reaches("HOOK_OFF", "MAX", {4, 5}) /\ Reaches("HOOK_ON", "MAX", {1, 2, 3})
  /\ Reaches("HOOK_OFF", "BE_CALLED", {4}) /\ Reaches("CALLING", "HOOK_ON", {14})
  /\ Reaches("CALL_DOWN", "TALKING", {18}) /\ Reaches("NUM_CALLED", "DTMF_START", {11})
  /\ Reaches("NUM_ERR", "DTMF_START", {13}) /\ Reaches("CALL_REJECT", "CALLING", {19})
  /\ Reaches("CALL_DOWN", "BE_CALLED", {17}) /\ Reaches("CALL_ACCEPT", "CALLING", {16})
<1>1. \A r \in Rows : FsmCtxs[r].event = "HOOK_OFF" <=> r \in {4, 5}
  BY RowsAre
<1>2. \A r \in Rows : FsmCtxs[r].event = "HOOK_ON" <=> r \in {1, 2, 3}
  BY RowsAre
<1>3. Reaches("HOOK_OFF", "MAX", {4, 5})
  <2>1. {4, 5} = {r \in Rows : FsmCtxs[r].event = "HOOK_OFF"}
    BY <1>1, RowsAre
  <2>2. QED
    BY <2>1 DEF Reaches
<1>4. Reaches("HOOK_ON", "MAX", {1, 2, 3})
  <2>1. {1, 2, 3} = {r \in Rows : FsmCtxs[r].event = "HOOK_ON"}
    BY <1>2, RowsAre
  <2>2. QED
    BY <2>1 DEF Reaches
<1>5. ASSUME NEW event, NEW state, NEW k \in Rows, state # "MAX",
             \A r \in Rows : FsmCtxs[r].event = event /\ FsmCtxs[r].cur = state <=> r = k
      PROVE  Reaches(event, state, {k})
  <2>1. {r \in Rows : FsmCtxs[r].event = event /\ FsmCtxs[r].cur = state} = {k}
    BY <1>5
  <2>2. k \in Int
    BY RowsAre
  <2>3. FirstOf({k}) = {k}
    <3>1. (CHOOSE r \in {k} : \A q \in {k} : r <= q) = k
      BY <2>2
    <3>2. QED
      BY <3>1, Zenon DEF FirstOf
  <2>4. ExactRow(event, state) = {k}
    BY <2>1, <2>3 DEF ExactRow
  <2>5. QED
    BY <1>5, <2>4 DEF Reaches
<1>6. Reaches("HOOK_OFF", "BE_CALLED", {4})
  <2>1. \A r \in Rows : FsmCtxs[r].event = "HOOK_OFF" /\ FsmCtxs[r].cur = "BE_CALLED" <=> r = 4
    BY RowsAre
  <2>2. QED
    BY <1>5, <2>1, RowsAre
<1>7. Reaches("CALLING", "HOOK_ON", {14})
  <2>1. \A r \in Rows : FsmCtxs[r].event = "CALLING" /\ FsmCtxs[r].cur = "HOOK_ON" <=> r = 14
    BY RowsAre
  <2>2. QED
    BY <1>5, <2>1, RowsAre
<1>8. Reaches("CALL_DOWN", "TALKING", {18})
  <2>1. \A r \in Rows : FsmCtxs[r].event = "CALL_DOWN" /\ FsmCtxs[r].cur = "TALKING" <=> r = 18
    BY RowsAre
  <2>2. QED
    BY <1>5, <2>1, RowsAre
<1>9. Reaches("NUM_CALLED", "DTMF_START", {11})
  <2>1. \A r \in Rows : FsmCtxs[r].event = "NUM_CALLED" /\ FsmCtxs[r].cur = "DTMF_START" <=> r = 11
    BY RowsAre
  <2>2. QED
    BY <1>5, <2>1, RowsAre
<1>10. Reaches("NUM_ERR", "DTMF_START", {13})
  <2>1. \A r \in Rows : FsmCtxs[r].event = "NUM_ERR" /\ FsmCtxs[r].cur = "DTMF_START" <=> r = 13
    BY RowsAre
  <2>2. QED
    BY <1>5, <2>1, RowsAre
<1>11. Reaches("CALL_REJECT", "CALLING", {19})
  <2>1. \A r \in Rows : FsmCtxs[r].event = "CALL_REJECT" /\ FsmCtxs[r].cur = "CALLING" <=> r = 19
    BY RowsAre
  <2>2. QED
    BY <1>5, <2>1, RowsAre
<1>12. Reaches("CALL_DOWN", "BE_CALLED", {17})
  <2>1. \A r \in Rows : FsmCtxs[r].event = "CALL_DOWN" /\ FsmCtxs[r].cur = "BE_CALLED" <=> r = 17
    BY RowsAre
  <2>2. QED
    BY <1>5, <2>1, RowsAre
<1>13. Reaches("CALL_ACCEPT", "CALLING", {16})
  <2>1. \A r \in Rows : FsmCtxs[r].event = "CALL_ACCEPT" /\ FsmCtxs[r].cur = "CALLING" <=> r = 16
    BY RowsAre
  <2>2. QED
    BY <1>5, <2>1, RowsAre
<1>14. QED
  BY <1>3, <1>4, <1>6, <1>7, <1>8, <1>9, <1>10, <1>11, <1>12, <1>13

(* A section adds an action and gives it to its rows.                      *)
Adds(t, u, cmds, R) ==
  LET n == Len(t.actions) + 1
  IN /\ Len(u.actions) = n /\ u.actions[n].handlers = cmds
     /\ \A i \in 1 .. Len(t.actions) : u.actions[i] = t.actions[i]
     /\ u.dynamic = t.dynamic /\ u.keys = t.keys
     /\ \A r \in Rows : (r \in R => u.rows[r] = n) /\ (r \notin R => u.rows[r] = t.rows[r])

PairReaches(pair, R) == Reaches(EventStrToInt(pair[1]), StateStrToInt(pair[2]), R)

LEMMA PairGives ==
  ASSUME NEW t \in TABLE, NEW pair, NEW R, PairReaches(pair, R), NEW index \in Nat
  PROVE  AfterPair(t, pair, index) \in TABLE /\ Gives(t, AfterPair(t, pair, index), R, index)
  BY NamesKnown, Registered, Given DEF AfterPair, PairReaches

LEMMA AllHandled ==
  ASSUME NEW section, section.cmds \in Seq(RUNNABLE)
  PROVE  HandlersOf(section) = section.cmds
<1>. DEFINE cmds == section.cmds
            unknown == {i \in DOMAIN cmds : GetCmdByTxt(cmds[i].cmd) \notin HandledCmds}
<1>1. HandledCmds \subseteq SrvMsgs
  BY DEF HandledCmds, SrvMsgs
<1>2. ASSUME NEW i \in DOMAIN cmds
      PROVE  GetCmdByTxt(cmds[i].cmd) \in HandledCmds
  <2>1. cmds[i] \in RUNNABLE
    OBVIOUS
  <2>2. cmds[i].cmd \in HandledCmds
    BY <2>1 DEF RUNNABLE
  <2>3. QED
    BY <1>1, <2>2 DEF GetCmdByTxt
<1>3. unknown = {}
  BY <1>2
<1>4. QED
  BY <1>3, Zenon DEF HandlersOf

(* A section whose action is for rows, not for a key.                      *)
Plain(section) ==
  /\ section \in SECTION /\ section.cmds \in Seq(RUNNABLE) /\ section.cmds # << >>

LEMMA HandlersNamed ==
  ASSUME NEW t \in TABLE, NEW section, Plain(section)
  PROVE  Named(t, section, section.cmds) \in TABLE
         /\ Adds(t, Named(t, section, section.cmds), section.cmds, {})
<1>. DEFINE u == Named(t, section, section.cmds)
<1>1. PICK a : a = Action(section.name, section.cmds)
  OBVIOUS
<1>2. a.handlers = section.cmds
  BY <1>1 DEF Action
<1>3. u \in TABLE
  BY SectionNamed DEF Plain
<1>4. PICK more : more = Append(t.actions, a)
  OBVIOUS
<1>5. t.actions \in Seq(ENTRY)
  BY DEF TABLE
<1>6. /\ Len(t.actions) \in Nat /\ Len(more) = Len(t.actions) + 1
      /\ more[Len(t.actions) + 1] = a /\ \A i \in 1 .. Len(t.actions) : more[i] = t.actions[i]
  BY <1>4, <1>5
<1>7. u = [t EXCEPT !.actions = more]
  BY <1>1, <1>4 DEF Named, TABLE
<1>. HIDE DEF u
<1>8. u.actions = more /\ u.rows = t.rows /\ u.dynamic = t.dynamic /\ u.keys = t.keys
  BY <1>7 DEF TABLE
<1>9. Adds(t, u, section.cmds, {})
  BY <1>2, <1>6, <1>8 DEF Adds
<1>10. QED
  BY <1>3, <1>9 DEF u

LEMMA AddsThenGives ==
  ASSUME NEW t \in TABLE, NEW u, NEW v, NEW cmds, NEW R, NEW Q, Adds(t, u, cmds, R),
         Gives(u, v, Q, Len(t.actions) + 1), R \subseteq Rows, Q \subseteq Rows
  PROVE  Adds(t, v, cmds, R \union Q)
  BY DEF Adds, Gives

LEMMA OnePairAdds ==
  ASSUME NEW t \in TABLE, NEW section, Plain(section), section.key = << >>,
         Len(section.pairs) = 1, NEW R, R \subseteq Rows, PairReaches(section.pairs[1], R)
  PROVE  Adds(t, ParseAction(t, section), section.cmds, R)
<1>. DEFINE m == Named(t, section, section.cmds)
            n == Len(t.actions) + 1
<1>1. m \in TABLE /\ Adds(t, m, section.cmds, {}) /\ n \in Nat
  <2>1. Len(t.actions) \in Nat
    BY DEF TABLE
  <2>2. QED
    BY <2>1, HandlersNamed
<1>2. ParseAction(t, section) = AttachActionToFSM(m, section, n)
  BY SectionCases, AllHandled DEF Plain
<1>. HIDE DEF m, n
<1>3. PICK f \in [0 .. 1 -> TABLE] :
        /\ f[0] = m /\ \A i \in 1 .. 1 : f[i] = AfterPair(f[i - 1], section.pairs[i], n)
        /\ AttachActionToFSM(m, section, n) = f[1]
  <2>1. section \in SECTION /\ Len(section.pairs) = 1
    BY DEF Plain
  <2>2. \E f \in [0 .. Len(section.pairs) -> TABLE] :
           /\ f[0] = m
           /\ \A i \in 1 .. Len(section.pairs) : f[i] = AfterPair(f[i - 1], section.pairs[i], n)
           /\ AttachActionToFSM(m, section, n) = f[Len(section.pairs)]
    BY <1>1, <2>1, AttachSteps
  <2>3. QED
    BY <2>1, <2>2
<1>4. f[1] = AfterPair(f[0], section.pairs[1], n)
  <2>1. 1 \in 1 .. 1 /\ 1 - 1 = 0
    OBVIOUS
  <2>2. QED
    BY <1>3, <2>1
<1>5. Gives(m, f[1], R, n)
  BY <1>1, <1>3, <1>4, PairGives
<1>6. Adds(t, f[1], section.cmds, {} \union R)
  BY <1>1, <1>5, AddsThenGives DEF n
<1>7. {} \union R = R
  OBVIOUS
<1>8. QED
  BY <1>2, <1>3, <1>6, <1>7

LEMMA TwoPairsAdd ==
  ASSUME NEW t \in TABLE, NEW section, Plain(section), section.key = << >>,
         Len(section.pairs) = 2, NEW R, R \subseteq Rows, PairReaches(section.pairs[1], R),
         NEW Q, Q \subseteq Rows, PairReaches(section.pairs[2], Q)
  PROVE  Adds(t, ParseAction(t, section), section.cmds, R \union Q)
<1>. DEFINE m == Named(t, section, section.cmds)
            n == Len(t.actions) + 1
<1>1. m \in TABLE /\ Adds(t, m, section.cmds, {}) /\ n \in Nat
  <2>1. Len(t.actions) \in Nat
    BY DEF TABLE
  <2>2. QED
    BY <2>1, HandlersNamed
<1>2. ParseAction(t, section) = AttachActionToFSM(m, section, n)
  BY SectionCases, AllHandled DEF Plain
<1>. HIDE DEF m, n
<1>3. PICK f \in [0 .. 2 -> TABLE] :
        /\ f[0] = m /\ \A i \in 1 .. 2 : f[i] = AfterPair(f[i - 1], section.pairs[i], n)
        /\ AttachActionToFSM(m, section, n) = f[2]
  <2>1. section \in SECTION /\ Len(section.pairs) = 2
    BY DEF Plain
  <2>2. \E f \in [0 .. Len(section.pairs) -> TABLE] :
           /\ f[0] = m
           /\ \A i \in 1 .. Len(section.pairs) : f[i] = AfterPair(f[i - 1], section.pairs[i], n)
           /\ AttachActionToFSM(m, section, n) = f[Len(section.pairs)]
    BY <1>1, <2>1, AttachSteps
  <2>3. QED
    BY <2>1, <2>2
<1>4. f[1] = AfterPair(f[0], section.pairs[1], n) /\ f[2] = AfterPair(f[1], section.pairs[2], n)
  <2>1. 1 \in 1 .. 2 /\ 1 - 1 = 0 /\ 2 \in 1 .. 2 /\ 2 - 1 = 1
    OBVIOUS
  <2>2. QED
    BY <1>3, <2>1
<1>5. f[1] \in TABLE /\ Gives(m, f[1], R, n)
  BY <1>1, <1>3, <1>4, PairGives
<1>6. Adds(t, f[1], section.cmds, {} \union R)
  BY <1>1, <1>5, AddsThenGives DEF n
<1>7. {} \union R = R
  OBVIOUS
<1>8. Gives(f[1], f[2], Q, n)
  BY <1>1, <1>4, <1>5, PairGives
<1>9. Adds(t, f[1], section.cmds, R)
  BY <1>6, <1>7
<1>10. Adds(t, f[2], section.cmds, R \union Q)
  BY <1>8, <1>9, AddsThenGives DEF n
<1>11. QED
  BY <1>2, <1>3, <1>10

(* A section for a key adds an action that the keys run.                   *)
KeyAdded(t, u, cmds) ==
  LET n == Len(t.actions) + 1
  IN /\ Len(u.actions) = n /\ u.actions[n].handlers = cmds
     /\ \A i \in 1 .. Len(t.actions) : u.actions[i] = t.actions[i]
     /\ u.dynamic = t.dynamic /\ u.rows = t.rows
     /\ (\A k \in DOMAIN t.keys : t.keys[k].index = n) => \A k \in DOMAIN u.keys : u.keys[k].index = n

LEMMA KeyAdds ==
  ASSUME NEW t \in TABLE, NEW section, Plain(section), section.key # << >>,
         NEW u, u = ParseAction(t, section)
  PROVE  KeyAdded(t, u, section.cmds)
<1>. DEFINE m == Named(t, section, section.cmds)
            n == Len(t.actions) + 1
<1>1. m \in TABLE /\ Adds(t, m, section.cmds, {}) /\ n \in Nat
  <2>1. Len(t.actions) \in Nat
    BY DEF TABLE
  <2>2. QED
    BY <2>1, HandlersNamed
<1>2. u = RegisterKeyAction(m, section.key, n)
  BY SectionCases, AllHandled DEF Plain
<1>3. m.rows = t.rows
  BY SectionNamed DEF Plain
<1>. HIDE DEF m
<1>4. PICK row : row = [key |-> section.key, index |-> n, stale |-> FALSE]
  OBVIOUS
<1>5. PICK head : head = <<row>>
  OBVIOUS
<1>6. u = [m EXCEPT !.keys = head \o m.keys]
  BY <1>1, <1>2, <1>4, <1>5 DEF RegisterKeyAction, TABLE
<1>7. u.actions = m.actions /\ u.dynamic = m.dynamic /\ u.rows = m.rows /\ u.keys = head \o m.keys
  BY <1>1, <1>6 DEF TABLE
<1>8. m.keys \in Seq(KEYROW)
  BY <1>1 DEF TABLE
<1>9. row \in KEYROW
  BY <1>1, <1>4 DEF KEYROW, Plain, SECTION
<1>10. head \in Seq(KEYROW) /\ Len(head) = 1 /\ head[1] = row
  BY <1>5, <1>9
<1>11. row.index = n
  BY <1>4
<1>. HIDE DEF n
<1>12. ASSUME \A k \in DOMAIN m.keys : m.keys[k].index = n, NEW k \in DOMAIN u.keys
       PROVE  u.keys[k].index = n
  <2>1. Len(m.keys) \in Nat /\ DOMAIN m.keys = 1 .. Len(m.keys)
    BY <1>8
  <2>2. PICK ks : ks = head \o m.keys
    OBVIOUS
  <2>3. /\ ks \in Seq(KEYROW) /\ Len(ks) = 1 + Len(m.keys)
        /\ ks[1] = head[1] /\ \A i \in 1 + 1 .. 1 + Len(m.keys) : ks[i] = m.keys[i - 1]
    <3>1. ks \in Seq(KEYROW) /\ Len(ks) = Len(head) + Len(m.keys)
      BY <1>8, <1>10, <2>2, ConcatProperties
    <3>2. \A i \in 1 .. Len(head) + Len(m.keys) :
            ks[i] = IF i <= Len(head) THEN head[i] ELSE m.keys[i - Len(head)]
      BY <1>8, <1>10, <2>2, ConcatProperties
    <3>3. QED
      BY <1>10, <2>1, <3>1, <3>2
  <2>4. k \in 1 .. 1 + Len(m.keys)
    BY <1>7, <2>2, <2>3
  <2>5. CASE k = 1
    BY <1>7, <1>10, <1>11, <2>2, <2>3, <2>5
  <2>6. CASE k # 1
    <3>1. k \in 1 + 1 .. 1 + Len(m.keys) /\ k - 1 \in 1 .. Len(m.keys)
      BY <2>1, <2>4, <2>6
    <3>2. u.keys[k] = m.keys[k - 1]
      BY <1>7, <2>2, <2>3, <3>1
    <3>3. QED
      BY <1>12, <2>1, <3>1, <3>2
  <2>7. QED
    BY <2>5, <2>6
<1>13. m.keys = t.keys
  BY <1>1 DEF Adds
<1>14. QED
  BY <1>1, <1>3, <1>7, <1>12, <1>13 DEF Adds, KeyAdded, n

(* The repository's file, as the assumption has it.                        *)
LEMMA VcFile ==
  /\ "vc_action" \in DOMAIN Files /\ Files["vc_action"].loads /\ ~ Files["missing"].loads
  /\ Sections("vc_action") = VcSections /\ VcSections[10].key # << >>
  /\ "missing" \in DOMAIN Files /\ VcSections \in Seq(SECTION) /\ Len(VcSections) = 10
<1>1. PICK key : /\ key = Last(Files["vc_action"].sections).key /\ key # << >>
                 /\ Files["vc_action"] = [loads |-> TRUE, sections |-> VcAction(key)]
  BY RepositoryFiles
<1>2. Sections("vc_action") = VcAction(key) /\ Files["vc_action"].loads
  BY <1>1 DEF Sections
<1>3. VcSections = VcAction(key)
  BY <1>1 DEF VcSections, Sections
<1>4. Len(VcSections) = 10 /\ VcSections[10].key = key
  BY <1>3, VcSectionsAre
<1>5. Sections("vc_action") \in Seq(SECTION)
  BY FilesAssumption DEF Sections
<1>6. QED
  BY <1>1, <1>2, <1>3, <1>4, <1>5, RepositoryFiles, FilesAssumption

LEMMA PairsReach ==
  /\ PairReaches(<<"HOOK_OFF", "MAX">>, {4, 5})
  /\ PairReaches(<<"HOOK_ON", "MAX">>, {1, 2, 3})
  /\ PairReaches(<<"HOOK_OFF", "BE_CALLED">>, {4})
  /\ PairReaches(<<"CALLING", "HOOK_ON">>, {14})
  /\ PairReaches(<<"CALL_DOWN", "TALKING">>, {18})
  /\ PairReaches(<<"NUM_CALLED", "DTMF_START">>, {11})
  /\ PairReaches(<<"NUM_ERR", "DTMF_START">>, {13})
  /\ PairReaches(<<"CALL_REJECT", "CALLING">>, {19})
  /\ PairReaches(<<"CALL_DOWN", "BE_CALLED">>, {17})
  /\ PairReaches(<<"CALL_ACCEPT", "CALLING">>, {16})
<1>1. ASSUME NEW event \in Events, NEW state \in States, NEW R, Reaches(event, state, R)
      PROVE  PairReaches(<<event, state>>, R)
  BY <1>1 DEF PairReaches, EventStrToInt, StateStrToInt
<1>2. /\ {"HOOK_OFF", "HOOK_ON", "CALLING", "CALL_DOWN", "NUM_CALLED", "NUM_ERR", "CALL_REJECT",
          "CALL_ACCEPT"} \subseteq Events
      /\ {"MAX", "BE_CALLED", "HOOK_ON", "TALKING", "DTMF_START", "CALLING"} \subseteq States
  BY DEF Events, States
<1>3. QED
  BY <1>1, <1>2, RowsReached

LEMMA ElementsOf ==
  ASSUME NEW S, NEW s \in Seq(S)
  PROVE  \A n \in Nat : Len(s) = n => \A i \in 1 .. n : s[i] \in S
  OBVIOUS

LEMMA VcPlain ==
  \A i \in 1 .. 10 : Plain(VcSections[i])
<1>1. /\ OffHook # << >> /\ AcceptCall # << >> /\ BeCalled # << >> /\ BeOnHook # << >>
      /\ Calling # << >> /\ CallingFailed # << >> /\ MissCall # << >> /\ OnHook # << >>
      /\ Talking # << >> /\ KeyTones # << >>
  BY KeyTonesRun DEF OffHook, AcceptCall, BeCalled, BeOnHook, Calling, CallingFailed, MissCall,
     OnHook, Talking
<1>2. \A i \in 1 .. 10 : VcSections[i] \in SECTION
  <2>1. PICK v : v = VcSections
    OBVIOUS
  <2>2. v \in Seq(SECTION) /\ Len(v) = 10
    BY <2>1, VcFile
  <2>3. \A i \in 1 .. 10 : v[i] \in SECTION
    BY <2>2, ElementsOf
  <2>4. QED
    BY <2>1, <2>3
<1>. DEFINE v == VcSections
<1>3. /\ v[1].cmds = OffHook /\ v[2].cmds = AcceptCall /\ v[3].cmds = BeCalled
      /\ v[4].cmds = BeOnHook /\ v[5].cmds = Calling /\ v[6].cmds = CallingFailed
      /\ v[7].cmds = MissCall /\ v[8].cmds = OnHook /\ v[9].cmds = Talking /\ v[10].cmds = KeyTones
  BY VcSectionsAre DEF VcSections
<1>. HIDE DEF v
<1>4. /\ v[1].cmds \in Seq(RUNNABLE) /\ v[2].cmds \in Seq(RUNNABLE)
      /\ v[3].cmds \in Seq(RUNNABLE) /\ v[4].cmds \in Seq(RUNNABLE)
      /\ v[5].cmds \in Seq(RUNNABLE) /\ v[6].cmds \in Seq(RUNNABLE)
      /\ v[7].cmds \in Seq(RUNNABLE) /\ v[8].cmds \in Seq(RUNNABLE)
      /\ v[9].cmds \in Seq(RUNNABLE) /\ v[10].cmds \in Seq(RUNNABLE)
  BY <1>3, BuiltInRuns, KeyTonesRun
<1>5. /\ v[1].cmds # << >> /\ v[2].cmds # << >> /\ v[3].cmds # << >> /\ v[4].cmds # << >>
      /\ v[5].cmds # << >> /\ v[6].cmds # << >> /\ v[7].cmds # << >> /\ v[8].cmds # << >>
      /\ v[9].cmds # << >> /\ v[10].cmds # << >>
  BY <1>1, <1>3
<1>6. \A i \in 1 .. 10 : i = 1 \/ i = 2 \/ i = 3 \/ i = 4 \/ i = 5 \/ i = 6 \/ i = 7 \/ i = 8
                        \/ i = 9 \/ i = 10
  OBVIOUS
<1>7. \A i \in 1 .. 10 : v[i].cmds \in Seq(RUNNABLE)
  BY <1>4, <1>6
<1>8. \A i \in 1 .. 10 : v[i].cmds # << >>
  BY <1>5, <1>6
<1>9. QED
  BY <1>2, <1>7, <1>8 DEF Plain, v

(* The rows that the file does not mention.                                *)
Unchosen == {6, 7, 8, 9, 10, 12, 15}
Bare(t) ==
  /\ t \in TABLE /\ t.dynamic = << >>
  /\ \A k \in DOMAIN t.keys : t.keys[k].index = 10
  /\ \A r \in Unchosen : t.rows[r] = VcRows[r]

LEMMA EmptiedIsBare ==
  ASSUME NEW t, Bare(t)
  PROVE  Bare(Emptied(t)) /\ Emptied(t).actions = << >>
<1>1. PICK keys : keys = [k \in DOMAIN t.keys |-> [t.keys[k] EXCEPT !.stale = TRUE]]
  OBVIOUS
<1>2. t.keys \in Seq(KEYROW)
  BY DEF TABLE, Bare
<1>3. \A w \in KEYROW : [w EXCEPT !.stale = TRUE].index = w.index
  BY DEF KEYROW
<1>4. \A k \in DOMAIN keys : keys[k].index = 10
  <2>1. ASSUME NEW k \in DOMAIN keys
        PROVE  keys[k].index = 10
    <3>1. k \in DOMAIN t.keys /\ keys[k] = [t.keys[k] EXCEPT !.stale = TRUE] /\ t.keys[k] \in KEYROW
      BY <1>1, <1>2, <2>1
    <3>2. QED
      BY <1>3, <3>1 DEF Bare
  <2>2. QED
    BY <2>1
<1>5. PICK d : d = DestroyActions(t)
  OBVIOUS
<1>6. d = [t EXCEPT !.keys = keys]
  BY <1>1, <1>5 DEF DestroyActions, TABLE, Bare
<1>7. d \in TABLE /\ d.keys = keys /\ d.dynamic = t.dynamic /\ d.rows = t.rows
  BY <1>5, <1>6, TableDestroyed DEF TABLE, Bare
<1>8. PICK e : e = [d EXCEPT !.builtIn = FALSE]
  OBVIOUS
<1>9. e \in TABLE /\ e.keys = keys /\ e.dynamic = t.dynamic /\ e.rows = t.rows
  BY <1>7, <1>8 DEF TABLE
<1>10. PICK u : u = [e EXCEPT !.actions = << >>]
  OBVIOUS
<1>11. u.keys = keys /\ u.dynamic = t.dynamic /\ u.rows = t.rows
  BY <1>9, <1>10 DEF TABLE
<1>12. u = Emptied(t)
  BY <1>5, <1>8, <1>10 DEF Emptied
<1>13. u \in TABLE /\ u.actions = << >>
  BY <1>12, TableEmptied DEF Bare
<1>14. Bare(u)
  BY <1>4, <1>11, <1>13 DEF Bare
<1>15. QED
  BY <1>12, <1>13, <1>14

(* What is known when i sections have been loaded; first is the table to   *)
(* begin with.                                                             *)
LEMMA VcAdds ==
  ASSUME NEW t \in TABLE, NEW i \in 1 .. 9, NEW u, u = ParseAction(t, VcSections[i])
  PROVE  Adds(t, u, VcSections[i].cmds,
              CASE i = 1 -> {4, 5} [] i = 2 -> {4} [] i = 3 -> {14} [] i = 4 -> {18}
                [] i = 5 -> {11} [] i = 6 -> {13, 19} [] i = 7 -> {17}
                [] i = 8 -> {1, 2, 3} [] i = 9 -> {16})
<1>1. Plain(VcSections[i]) /\ VcSections[i].key = << >>
  BY VcPlain, VcSectionsAre DEF VcSections
<1>2. Rows = 1 .. 19
  BY RowsAre
<1>3. PICK s : s = VcSections[i]
  OBVIOUS
<1>4. Plain(s) /\ s.key = << >> /\ u = ParseAction(t, s)
  BY <1>1, <1>3
<1>5. ASSUME NEW pair, s.pairs = <<pair>>, NEW R \in SUBSET Rows, PairReaches(pair, R)
      PROVE  Adds(t, u, s.cmds, R)
  <2>1. Len(s.pairs) = 1 /\ s.pairs[1] = pair
    BY <1>5
  <2>2. QED
    BY <1>4, <1>5, <2>1, OnePairAdds
<1>6. ASSUME NEW pair, NEW other, s.pairs = <<pair, other>>, NEW R \in SUBSET Rows,
             PairReaches(pair, R), NEW Q \in SUBSET Rows, PairReaches(other, Q)
      PROVE  Adds(t, u, s.cmds, R \union Q)
  <2>1. Len(s.pairs) = 2 /\ s.pairs[1] = pair /\ s.pairs[2] = other
    BY <1>6
  <2>2. QED
    BY <1>4, <1>6, <2>1, TwoPairsAdd
<1>7. ASSUME i = 1
      PROVE  Adds(t, u, s.cmds, {4, 5})
  <2>1. s.pairs = <<<<"HOOK_OFF", "MAX">>>>
    BY <1>3, <1>7, VcSectionsAre DEF VcSections
  <2>2. {4, 5} \in SUBSET Rows
    BY <1>2
  <2>3. QED
    BY <1>5, <2>1, <2>2, PairsReach
<1>8. ASSUME i = 2
      PROVE  Adds(t, u, s.cmds, {4})
  <2>1. s.pairs = <<<<"HOOK_OFF", "BE_CALLED">>>>
    BY <1>3, <1>8, VcSectionsAre DEF VcSections
  <2>2. {4} \in SUBSET Rows
    BY <1>2
  <2>3. QED
    BY <1>5, <2>1, <2>2, PairsReach
<1>9. ASSUME i = 3
      PROVE  Adds(t, u, s.cmds, {14})
  <2>1. s.pairs = <<<<"CALLING", "HOOK_ON">>>>
    BY <1>3, <1>9, VcSectionsAre DEF VcSections
  <2>2. {14} \in SUBSET Rows
    BY <1>2
  <2>3. QED
    BY <1>5, <2>1, <2>2, PairsReach
<1>10. ASSUME i = 4
      PROVE  Adds(t, u, s.cmds, {18})
  <2>1. s.pairs = <<<<"CALL_DOWN", "TALKING">>>>
    BY <1>3, <1>10, VcSectionsAre DEF VcSections
  <2>2. {18} \in SUBSET Rows
    BY <1>2
  <2>3. QED
    BY <1>5, <2>1, <2>2, PairsReach
<1>11. ASSUME i = 5
      PROVE  Adds(t, u, s.cmds, {11})
  <2>1. s.pairs = <<<<"NUM_CALLED", "DTMF_START">>>>
    BY <1>3, <1>11, VcSectionsAre DEF VcSections
  <2>2. {11} \in SUBSET Rows
    BY <1>2
  <2>3. QED
    BY <1>5, <2>1, <2>2, PairsReach
<1>12. ASSUME i = 6
      PROVE  Adds(t, u, s.cmds, {13, 19})
  <2>1. s.pairs = <<<<"NUM_ERR", "DTMF_START">>, <<"CALL_REJECT", "CALLING">>>>
    BY <1>3, <1>12, VcSectionsAre DEF VcSections
  <2>2. {13} \in SUBSET Rows /\ {19} \in SUBSET Rows
    BY <1>2
  <2>3. Adds(t, u, s.cmds, {13} \union {19})
    BY <1>6, <2>1, <2>2, PairsReach
  <2>4. {13} \union {19} = {13, 19}
    OBVIOUS
  <2>5. QED
    BY <2>3, <2>4
<1>13. ASSUME i = 7
      PROVE  Adds(t, u, s.cmds, {17})
  <2>1. s.pairs = <<<<"CALL_DOWN", "BE_CALLED">>>>
    BY <1>3, <1>13, VcSectionsAre DEF VcSections
  <2>2. {17} \in SUBSET Rows
    BY <1>2
  <2>3. QED
    BY <1>5, <2>1, <2>2, PairsReach
<1>14. ASSUME i = 8
      PROVE  Adds(t, u, s.cmds, {1, 2, 3})
  <2>1. s.pairs = <<<<"HOOK_ON", "MAX">>>>
    BY <1>3, <1>14, VcSectionsAre DEF VcSections
  <2>2. {1, 2, 3} \in SUBSET Rows
    BY <1>2
  <2>3. QED
    BY <1>5, <2>1, <2>2, PairsReach
<1>15. ASSUME i = 9
      PROVE  Adds(t, u, s.cmds, {16})
  <2>1. s.pairs = <<<<"CALL_ACCEPT", "CALLING">>>>
    BY <1>3, <1>15, VcSectionsAre DEF VcSections
  <2>2. {16} \in SUBSET Rows
    BY <1>2
  <2>3. QED
    BY <1>5, <2>1, <2>2, PairsReach
<1>16. i = 1 \/ i = 2 \/ i = 3 \/ i = 4 \/ i = 5 \/ i = 6 \/ i = 7 \/ i = 8 \/ i = 9
  OBVIOUS
<1>17. QED
  BY <1>3, <1>7, <1>8, <1>9, <1>10, <1>11, <1>12, <1>13, <1>14, <1>15, <1>16

(* The table when i sections of the file have been read, and what the      *)
(* next one does to its rows.                                              *)
Grown(u, i) ==
  /\ Len(u.actions) = i /\ \A j \in 1 .. i : u.actions[j].handlers = VcSections[j].cmds
  /\ u.dynamic = << >> /\ \A k \in DOMAIN u.keys : u.keys[k].index = 10

RowsGiven(u, v, R, n) ==
  \A r \in Rows : (r \in R => v.rows[r] = n) /\ (r \notin R => v.rows[r] = u.rows[r])

LEMMA AddsNext ==
  ASSUME NEW u, NEW i \in Nat, Grown(u, i), NEW n, n = i + 1, NEW v, NEW R,
         Adds(u, v, VcSections[n].cmds, R)
  PROVE  Grown(v, n) /\ RowsGiven(u, v, R, n)
  BY DEF Grown, Adds, RowsGiven

LEMMA VcLoads ==
  ASSUME NEW t, Bare(t)
  PROVE  Armed(LoadAction(t, Files["vc_action"]), "vc_action")
<1>1. PICK w \in [0 .. 10 -> TABLE] :
        /\ w[0] = Emptied(t)
        /\ \A i \in 1 .. 10 : w[i] = ParseAction(w[i - 1], VcSections[i])
        /\ LoadAction(t, Files["vc_action"]) = w[10]
  <2>1. t \in TABLE
    BY DEF Bare
  <2>2. PICK f : f = "vc_action"
    OBVIOUS
  <2>3. f \in DOMAIN Files /\ Files[f].loads /\ Sections(f) = VcSections
    BY <2>2, VcFile
  <2>4. \E w \in [0 .. Len(Sections(f)) -> TABLE] :
           /\ w[0] = Emptied(t)
           /\ \A i \in 1 .. Len(Sections(f)) : w[i] = ParseAction(w[i - 1], Sections(f)[i])
           /\ LoadAction(t, Files[f]) = w[Len(Sections(f))]
    BY <2>1, <2>3, LoadSteps
  <2>5. Len(Sections(f)) = 10
    BY <2>3, VcFile
  <2>6. QED
    BY <2>2, <2>3, <2>4, <2>5
<1>2. \A i \in 0 .. 10 : w[i] \in TABLE
  BY <1>1
<1>3. Grown(w[0], 0) /\ \A r \in Unchosen : w[0].rows[r] = VcRows[r]
  BY <1>1, EmptiedIsBare DEF Bare, Grown
<1>4. Grown(w[1], 1) /\ RowsGiven(w[0], w[1], {4, 5}, 1)
  <2>1. w[1] = ParseAction(w[0], VcSections[1]) /\ w[0] \in TABLE
    BY <1>1, <1>2
  <2>2. Adds(w[0], w[1], VcSections[1].cmds, {4, 5})
    BY <2>1, VcAdds
  <2>3. QED
    BY <1>3, <2>2, AddsNext
<1>5. Grown(w[2], 2) /\ RowsGiven(w[1], w[2], {4}, 2)
  <2>1. w[2] = ParseAction(w[1], VcSections[2]) /\ w[1] \in TABLE
    BY <1>1, <1>2
  <2>2. Adds(w[1], w[2], VcSections[2].cmds, {4})
    BY <2>1, VcAdds
  <2>3. QED
    BY <1>4, <2>2, AddsNext
<1>6. Grown(w[3], 3) /\ RowsGiven(w[2], w[3], {14}, 3)
  <2>1. w[3] = ParseAction(w[2], VcSections[3]) /\ w[2] \in TABLE
    BY <1>1, <1>2
  <2>2. Adds(w[2], w[3], VcSections[3].cmds, {14})
    BY <2>1, VcAdds
  <2>3. QED
    BY <1>5, <2>2, AddsNext
<1>7. Grown(w[4], 4) /\ RowsGiven(w[3], w[4], {18}, 4)
  <2>1. w[4] = ParseAction(w[3], VcSections[4]) /\ w[3] \in TABLE
    BY <1>1, <1>2
  <2>2. Adds(w[3], w[4], VcSections[4].cmds, {18})
    BY <2>1, VcAdds
  <2>3. QED
    BY <1>6, <2>2, AddsNext
<1>8. Grown(w[5], 5) /\ RowsGiven(w[4], w[5], {11}, 5)
  <2>1. w[5] = ParseAction(w[4], VcSections[5]) /\ w[4] \in TABLE
    BY <1>1, <1>2
  <2>2. Adds(w[4], w[5], VcSections[5].cmds, {11})
    BY <2>1, VcAdds
  <2>3. QED
    BY <1>7, <2>2, AddsNext
<1>9. Grown(w[6], 6) /\ RowsGiven(w[5], w[6], {13, 19}, 6)
  <2>1. w[6] = ParseAction(w[5], VcSections[6]) /\ w[5] \in TABLE
    BY <1>1, <1>2
  <2>2. Adds(w[5], w[6], VcSections[6].cmds, {13, 19})
    BY <2>1, VcAdds
  <2>3. QED
    BY <1>8, <2>2, AddsNext
<1>10. Grown(w[7], 7) /\ RowsGiven(w[6], w[7], {17}, 7)
  <2>1. w[7] = ParseAction(w[6], VcSections[7]) /\ w[6] \in TABLE
    BY <1>1, <1>2
  <2>2. Adds(w[6], w[7], VcSections[7].cmds, {17})
    BY <2>1, VcAdds
  <2>3. QED
    BY <1>9, <2>2, AddsNext
<1>11. Grown(w[8], 8) /\ RowsGiven(w[7], w[8], {1, 2, 3}, 8)
  <2>1. w[8] = ParseAction(w[7], VcSections[8]) /\ w[7] \in TABLE
    BY <1>1, <1>2
  <2>2. Adds(w[7], w[8], VcSections[8].cmds, {1, 2, 3})
    BY <2>1, VcAdds
  <2>3. QED
    BY <1>10, <2>2, AddsNext
<1>12. Grown(w[9], 9) /\ RowsGiven(w[8], w[9], {16}, 9)
  <2>1. w[9] = ParseAction(w[8], VcSections[9]) /\ w[8] \in TABLE
    BY <1>1, <1>2
  <2>2. Adds(w[8], w[9], VcSections[9].cmds, {16})
    BY <2>1, VcAdds
  <2>3. QED
    BY <1>11, <2>2, AddsNext
<1>13. /\ Len(w[10].actions) = 10
       /\ \A i \in 1 .. 10 : w[10].actions[i].handlers = VcSections[i].cmds
       /\ w[10].dynamic = << >> /\ w[10].rows = w[9].rows
       /\ \A k \in DOMAIN w[10].keys : w[10].keys[k].index = 10
  <2>1. w[10] = ParseAction(w[9], VcSections[10]) /\ w[9] \in TABLE
    BY <1>1, <1>2
  <2>2. Plain(VcSections[10]) /\ VcSections[10].key # << >>
    BY VcPlain, VcFile
  <2>3. Len(w[9].actions) = 9
    BY <1>12 DEF Grown
  <2>4. /\ Len(w[10].actions) = Len(w[9].actions) + 1
        /\ w[10].actions[Len(w[9].actions) + 1].handlers = VcSections[10].cmds
        /\ \A i \in 1 .. Len(w[9].actions) : w[10].actions[i] = w[9].actions[i]
        /\ w[10].dynamic = w[9].dynamic /\ w[10].rows = w[9].rows
        /\ (\A k \in DOMAIN w[9].keys : w[9].keys[k].index = Len(w[9].actions) + 1)
           => \A k \in DOMAIN w[10].keys : w[10].keys[k].index = Len(w[9].actions) + 1
    <3>1. PICK s, u : s = VcSections[10] /\ u = w[10]
      OBVIOUS
    <3>2. Plain(s) /\ s.key # << >> /\ u = ParseAction(w[9], s)
      BY <2>1, <2>2, <3>1
    <3>3. KeyAdded(w[9], u, s.cmds)
      BY <2>1, <3>2, KeyAdds
    <3>4. QED
      BY <3>1, <3>3 DEF KeyAdded
  <2>5. \A i \in 1 .. 10 : i \in 1 .. 9 \/ i = 10
    OBVIOUS
  <2>6. QED
    BY <1>12, <2>3, <2>4, <2>5 DEF Grown
<1>14. /\ w[9].rows[1] = 8 /\ w[9].rows[2] = 8 /\ w[9].rows[3] = 8 /\ w[9].rows[4] = 2
       /\ w[9].rows[5] = 1 /\ w[9].rows[11] = 5 /\ w[9].rows[13] = 6 /\ w[9].rows[14] = 3
       /\ w[9].rows[16] = 9 /\ w[9].rows[17] = 7 /\ w[9].rows[18] = 4 /\ w[9].rows[19] = 6
  BY <1>4, <1>5, <1>6, <1>7, <1>8, <1>9, <1>10, <1>11, <1>12, RowsAre DEF RowsGiven
<1>15. \A r \in Unchosen : w[9].rows[r] = w[0].rows[r]
  <2>1. \A r \in Unchosen : r \in Rows
    BY RowsAre DEF Unchosen
  <2>2. QED
    BY <1>4, <1>5, <1>6, <1>7, <1>8, <1>9, <1>10, <1>11, <1>12, <2>1 DEF Unchosen, RowsGiven
<1>16. \A r \in Rows : w[9].rows[r] = VcRows[r]
  <2>1. \A r \in Rows : \/ r \in Unchosen \/ r = 1 \/ r = 2 \/ r = 3 \/ r = 4 \/ r = 5 \/ r = 11
                        \/ r = 13 \/ r = 14 \/ r = 16 \/ r = 17 \/ r = 18 \/ r = 19
    BY RowsAre DEF Unchosen
  <2>2. \A r \in Unchosen : w[9].rows[r] = VcRows[r]
    BY <1>3, <1>15
  <2>3. QED
    BY <1>14, <2>1, <2>2, VcRowsAre
<1>17. QED
  BY <1>1, <1>13, <1>16 DEF Armed

LEMMA ArmedBare ==
  ASSUME NEW t \in TABLE, NEW f, Armed(t, f)
  PROVE  Bare(t)
<1>1. \A r \in Unchosen : r \in Rows /\ VcRows[r] = FsmCtxs[r].index
  BY VcRowsAre, IndexesAre, RowsAre DEF Unchosen
<1>2. CASE f = "missing"
  <2>1. DOMAIN t.keys = {}
    BY <1>2 DEF Armed
  <2>2. QED
    BY <1>1, <1>2, <2>1 DEF Armed, Bare
<1>3. CASE f = "vc_action"
  BY <1>1, <1>3 DEF Armed, Bare
<1>4. QED
  BY <1>2, <1>3 DEF Armed

LEMMA DefaultsArmed ==
  ASSUME NEW t \in TABLE, t.keys = << >>, t.dynamic = << >>,
         \A r \in Rows : t.rows[r] = FsmCtxs[r].index
  PROVE  Armed(LoadAction(t, Files["missing"]), "missing")
<1>1. PICK d : d = DestroyActions(t)
  OBVIOUS
<1>2. d = [t EXCEPT !.keys = << >>]
  <2>1. [k \in DOMAIN t.keys |-> [t.keys[k] EXCEPT !.stale = TRUE]] = << >>
    <3>1. DOMAIN t.keys = {}
      OBVIOUS
    <3>2. QED
      BY <3>1
  <2>2. QED
    BY <1>1, <2>1 DEF DestroyActions, TABLE
<1>3. d \in TABLE /\ d.keys = << >> /\ d.dynamic = << >> /\ d.rows = t.rows
  BY <1>1, <1>2, TableDestroyed DEF TABLE
<1>4. PICK e : e = [d EXCEPT !.builtIn = TRUE]
  OBVIOUS
<1>5. e \in TABLE /\ e.keys = << >> /\ e.dynamic = << >> /\ e.rows = t.rows
  BY <1>3, <1>4 DEF TABLE
<1>6. PICK u : u = [e EXCEPT !.actions = AllActionsDef]
  OBVIOUS
<1>7. u.keys = << >> /\ u.dynamic = << >> /\ u.rows = t.rows /\ u.actions = AllActionsDef
  BY <1>5, <1>6 DEF TABLE
<1>8. LoadAction(t, Files["missing"]) = u
  BY <1>1, <1>4, <1>6, VcFile DEF LoadAction
<1>9. QED
  BY <1>7, <1>8 DEF Armed

(* The first table is armed, and so is what a load makes of an armed one,  *)
(* unless a file could not be loaded after one that could.                 *)
LEMMA LoadArms ==
  /\ \A f \in {"vc_action", "missing"} : Armed(LoadAction(InitialTable, Files[f]), f)
  /\ \A t \in TABLE : \A f, g : Armed(t, f) /\ (g = "vc_action" \/ (g = f /\ g = "missing"))
       => Armed(LoadAction(t, Files[g]), g)
<1>1. /\ InitialTable \in TABLE /\ InitialTable.keys = << >> /\ InitialTable.dynamic = << >>
      /\ \A r \in Rows : InitialTable.rows[r] = FsmCtxs[r].index
  BY FirstTable DEF InitialTable
<1>2. Bare(InitialTable)
  <2>1. \A r \in Unchosen : r \in Rows /\ VcRows[r] = FsmCtxs[r].index
    BY VcRowsAre, IndexesAre, RowsAre DEF Unchosen
  <2>2. DOMAIN InitialTable.keys = {}
    BY <1>1
  <2>3. QED
    BY <1>1, <2>1, <2>2 DEF Bare
<1>3. \A f \in {"vc_action", "missing"} : Armed(LoadAction(InitialTable, Files[f]), f)
  BY <1>1, <1>2, VcLoads, DefaultsArmed
<1>4. ASSUME NEW t \in TABLE, NEW f, Armed(t, f)
      PROVE  Armed(LoadAction(t, Files["vc_action"]), "vc_action")
  BY <1>4, ArmedBare, VcLoads
<1>5. ASSUME NEW t \in TABLE, Armed(t, "missing")
      PROVE  Armed(LoadAction(t, Files["missing"]), "missing")
  <2>1. /\ t.keys = << >> /\ t.dynamic = << >> /\ \A r \in Rows : t.rows[r] = FsmCtxs[r].index
    BY <1>5 DEF Armed
  <2>2. QED
    BY <2>1, DefaultsArmed
<1>6. QED
  BY <1>3, <1>4, <1>5

-----------------------------------------------------------------------------
(* What an action that tells the server needs has made of the link s.      *)
Turned(s, n, needs) ==
  /\ Steady(n)
  /\ Rings(n) <=> "VOIP_RING_START" \in needs \/ (Rings(s) /\ "VOIP_RING_STOP" \notin needs)
  /\ Speaks(n) <=> "VOIP_RTP_ACTIVE" \in needs \/ (Speaks(s) /\ "VOIP_RTP_DEACTIVE" \notin needs)
  /\ s.openChannel[endpt] = endpt \/ "VOIP_RTP_ACTIVE" \in needs => n.openChannel[endpt] = endpt

Able(s, needs) == Steady(s) /\ ("VOIP_RTP_DEACTIVE" \in needs => s.openChannel[endpt] = endpt)

LEMMA ActionTurns ==
  ASSUME NEW s, NEW handlers \in Seq(RUNNABLE), Able(s, Tells(handlers)),
         NEW words \in Seq(ARGUMENT), Orderly(handlers, words), NEW junk \in Seq(ARGUMENT),
         NEW n, n = ActionGo(s, handlers, words, junk), n.sock = "open"
  PROVE  Turned(s, n, Tells(handlers))
<1>1. \A c \in Telling : c \in Tells(handlers) <=> Has(handlers, Len(handlers), c)
  BY DEF Tells
<1>2. /\ "VOIP_RING_START" \in Telling /\ "VOIP_RING_STOP" \in Telling
      /\ "VOIP_RTP_ACTIVE" \in Telling /\ "VOIP_RTP_DEACTIVE" \in Telling
  BY DEF Telling
<1>3. Steady(s) /\ (Has(handlers, Len(handlers), "VOIP_RTP_DEACTIVE") => s.openChannel[endpt] = endpt)
  BY <1>1, <1>2 DEF Able
<1>4. Went(s, n, handlers, Len(handlers))
  BY <1>3, ActionWent
<1>5. QED
  BY <1>1, <1>2, <1>4 DEF Went, Turned

LEMMA NothingTurns ==
  ASSUME NEW s, Steady(s), NEW n, n = Return(s, "OK")
  PROVE  Turned(s, n, {})
<1>1. /\ n \in LINK /\ n.sock = s.sock /\ n.good = s.good /\ n.beyond = s.beyond
      /\ n.result = "OK" /\ n.openChannel = s.openChannel /\ n.server = s.server
  BY DEF Return, LINK, Steady
<1>2. QED
  BY <1>1 DEF Turned, Steady, OwnChannel, Failed, Rings, Speaks

LEMMA NoneTells == Tells(<< >>) = {}
<1>1. PICK none : none = << >>
  OBVIOUS
<1>2. Len(none) = 0
  BY <1>1
<1>3. Tells(none) = {}
  BY <1>2 DEF Tells, Has
<1>4. QED
  BY <1>1, <1>3

LEMMA RowTurns ==
  ASSUME NEW t, NEW r \in Rows, RunsSuited(t, r), NEW s, Able(s, Needs(r)),
         NEW junk \in Seq(ARGUMENT),
         NEW n, n = RunAction(t, t.rows[r], s, RowWords(r), junk), n.sock = "open"
  PROVE  Turned(s, n, Needs(r))
<1>1. CASE t.rows[r] = 0 /\ Suits(<< >>, r)
  <2>1. Needs(r) = {}
    BY <1>1, NoneTells DEF Suits
  <2>2. n = Return(s, "OK")
    BY <1>1 DEF RunAction
  <2>3. QED
    BY <2>1, <2>2, NothingTurns DEF Able
<1>2. CASE /\ t.rows[r] \in Nat \ {0} /\ ~ NoAction(t, t.rows[r])
           /\ Suits(t.actions[t.rows[r]].handlers, r)
  <2>1. PICK handlers : handlers = t.actions[t.rows[r]].handlers
    OBVIOUS
  <2>2. n = ActionGo(s, handlers, RowWords(r), junk)
    BY <1>2, <2>1 DEF RunAction
  <2>3. RowWords(r) \in Seq(ARGUMENT)
    BY DataAreWords DEF RowWords
  <2>4. handlers \in Seq(RUNNABLE) /\ Orderly(handlers, RowWords(r)) /\ Tells(handlers) = Needs(r)
    BY <1>2, <2>1 DEF Suits
  <2>5. Able(s, Tells(handlers))
    BY <2>4
  <2>6. Turned(s, n, Tells(handlers))
    BY <2>2, <2>3, <2>4, <2>5, ActionTurns
  <2>7. QED
    BY <2>4, <2>6
<1>3. QED
  BY <1>1, <1>2 DEF RunsSuited

LEMMA KeyTurns ==
  ASSUME NEW t, NEW k, RunsTones(t, k), NEW s, Steady(s), NEW junk \in Seq(ARGUMENT),
         NEW n, n = RunAction(t, t.keys[k].index, s, <<Number(endpt)>>, junk), n.sock = "open"
  PROVE  Turned(s, n, {})
<1>1. PICK words : words = <<Number(endpt)>>
  OBVIOUS
<1>2. words \in Seq(ARGUMENT) /\ OfRow(words)
  <2>1. Number(endpt) \in ARGUMENT
    BY OwnEndpt, WordsAreWords
  <2>2. QED
    BY <1>1, <2>1, OneElement DEF OfRow
<1>3. n = ActionGo(s, KeyTones, words, junk)
  BY <1>1 DEF RunAction, RunsTones
<1>4. Tells(KeyTones) = {} /\ KeyTones \in Seq(RUNNABLE)
  BY KeyTonesRun
<1>5. Orderly(KeyTones, words)
  <2>1. AllSend(KeyTones, words)
    BY <1>2, KeyTonesRun
  <2>2. \A c \in Telling : ~ Has(KeyTones, Len(KeyTones), c)
    BY <1>4 DEF Tells
  <2>3. QED
    BY <2>1, <2>2 DEF Orderly, AllSend, Telling
<1>6. Able(s, Tells(KeyTones))
  BY <1>4 DEF Able
<1>7. Turned(s, n, Tells(KeyTones))
  BY <1>2, <1>3, <1>4, <1>5, <1>6, ActionTurns
<1>8. QED
  BY <1>4, <1>7

(* No action opens the connection.                                         *)
LEMMA ActionOpensNone ==
  ASSUME NEW s \in LINK, NEW handlers \in Seq(RUNNABLE), NEW words \in Seq(ARGUMENT),
         AllSend(handlers, words), NEW junk \in Seq(ARGUMENT),
         NEW n, n = ActionGo(s, handlers, words, junk), n.sock = "open"
  PROVE  s.sock = "open"
<1>. DEFINE l == Len(handlers)
<1>1. PICK f \in [0 .. l -> LINK] :
        /\ f[0] = Return(s, "OK")
        /\ \A i \in 1 .. l : f[i] = AfterHandler(f[i - 1], handlers[i], words, junk)
        /\ n = f[l]
  BY ActionSteps
<1>2. l \in Nat /\ \A i \in 1 .. l : Sends(handlers[i], words)
  BY DEF AllSend
<1>. HIDE DEF l
<1>. DEFINE T == {k \in Nat : k <= l /\ f[k].sock = "open" => s.sock = "open"}
<1>3. 0 \in T
  BY <1>1 DEF Return, LINK
<1>4. \A k \in Nat : k \in T => k + 1 \in T
  <2>1. SUFFICES ASSUME NEW k \in Nat, k \in T, k + 1 <= l, f[k + 1].sock = "open"
                 PROVE  s.sock = "open"
    OBVIOUS
  <2>2. k \in 0 .. l /\ k + 1 \in 1 .. l /\ (k + 1) - 1 = k /\ k <= l /\ f[k] \in LINK
    BY <1>1, <1>2, <2>1
  <2>3. f[k + 1] = AfterHandler(f[k], handlers[k + 1], words, junk) /\ Sends(handlers[k + 1], words)
    BY <1>1, <1>2, <2>2
  <2>4. f[k].sock = "open"
    BY <2>1, <2>2, <2>3 DEF AfterHandler, Sends, Through
  <2>5. QED
    BY <2>1, <2>2, <2>4
<1>. HIDE DEF T
<1>5. l \in T
  BY <1>2, <1>3, <1>4, NumbersByInduction
<1>6. QED
  BY <1>1, <1>2, <1>5 DEF T

LEMMA KeyOpensNone ==
  ASSUME NEW t, NEW k, RunsTones(t, k), NEW s \in LINK, NEW junk \in Seq(ARGUMENT),
         NEW n, n = RunAction(t, t.keys[k].index, s, <<Number(endpt)>>, junk), n.sock = "open"
  PROVE  s.sock = "open"
<1>1. PICK words : words = <<Number(endpt)>>
  OBVIOUS
<1>2. words \in Seq(ARGUMENT) /\ OfRow(words)
  <2>1. Number(endpt) \in ARGUMENT
    BY OwnEndpt, WordsAreWords
  <2>2. QED
    BY <1>1, <2>1, OneElement DEF OfRow
<1>3. n = ActionGo(s, KeyTones, words, junk)
  BY <1>1 DEF RunAction, RunsTones
<1>4. KeyTones \in Seq(RUNNABLE) /\ AllSend(KeyTones, words)
  BY <1>2, KeyTonesRun
<1>5. QED
  BY <1>2, <1>3, <1>4, ActionOpensNone

LEMMA RowOpensNone ==
  ASSUME NEW t, NEW r \in Rows, RunsSuited(t, r), NEW s \in LINK, NEW junk \in Seq(ARGUMENT),
         NEW n, n = RunAction(t, t.rows[r], s, RowWords(r), junk), n.sock = "open"
  PROVE  s.sock = "open"
<1>1. CASE t.rows[r] = 0
  <2>1. n = Return(s, "OK")
    BY <1>1 DEF RunAction
  <2>2. QED
    BY <2>1 DEF Return, LINK
<1>2. CASE /\ t.rows[r] \in Nat \ {0} /\ ~ NoAction(t, t.rows[r])
           /\ Suits(t.actions[t.rows[r]].handlers, r)
  <2>1. PICK handlers : handlers = t.actions[t.rows[r]].handlers
    OBVIOUS
  <2>2. n = ActionGo(s, handlers, RowWords(r), junk)
    BY <1>2, <2>1 DEF RunAction
  <2>3. RowWords(r) \in Seq(ARGUMENT)
    BY DataAreWords DEF RowWords
  <2>4. handlers \in Seq(RUNNABLE) /\ AllSend(handlers, RowWords(r))
    BY <1>2, <2>1 DEF Suits, Orderly, AllSend
  <2>5. QED
    BY <2>2, <2>3, <2>4, ActionOpensNone
<1>3. QED
  BY <1>1, <1>2 DEF RunsSuited

-----------------------------------------------------------------------------
(* What a handler does in quiet times: it stops the voice of a talk that   *)
(* the user ends, puts at most one event that is not of the hook, and      *)
(* fails only where the state stays what it is.                            *)
HookEvents == {"HOOK_ON", "HOOK_OFF", "HOOK_FLASH"}
Grew(q, p) == p = q \/ \E e \in EVENT : e.type \notin HookEvents /\ p = Append(q, e)
Stops(name) == IF name = "hookOnTalking" THEN {"VOIP_RTP_DEACTIVE"} ELSE {}
MayFail == {"dfmtEndDtmfStart", "numDoneDtmfStart"}

(* What a handler has done to the machine m, in quiet times.               *)
Handled(m, n, name, x) ==
  /\ m.link.sock = "open"
  /\ Able(m.link, Stops(name)) => Turned(m.link, n.link, Stops(name))
  /\ Grew(m.queue, n.queue)
  /\ x.session /\ name \notin MayFail => n.ok

LEMMA SameTurns ==
  ASSUME NEW s
  PROVE  Able(s, {}) => Turned(s, s, {})
  BY DEF Able, Turned

LEMMA QuietHandled ==
  ASSUME NEW m, IsMachine(m), NEW n, n.link = m.link, n.link.sock = "open", Grew(m.queue, n.queue),
         NEW name, Stops(name) = {}, NEW x, x.session /\ name \notin MayFail => n.ok
  PROVE  Handled(m, n, name, x)
  BY SameTurns DEF Handled

LEMMA SilenceHandled ==
  ASSUME NEW m, GoodMachine(m), Sound(m), NEW x, NEW n, n = HookOnTalking(m, x),
         n.link.sock = "open"
  PROVE  Handled(m, n, "hookOnTalking", x)
<1>. DEFINE l == vt_sendRtpDeactive(m.link, endpt)
            k == [m EXCEPT !.link = l]
<1>1. n = [k EXCEPT !.ok = x.session]
  BY DEF HookOnTalking, SendCallMsg, GoodMachine, IsMachine
<1>2. Through(m.link, l, "VOIP_RTP_DEACTIVE")
  BY SilenceThrough DEF Sound
<1>. HIDE DEF l
<1>3. n.link = l /\ n.queue = m.queue /\ n.ok = x.session
  BY <1>1 DEF GoodMachine, IsMachine
<1>4. Able(m.link, {"VOIP_RTP_DEACTIVE"}) => Turned(m.link, l, {"VOIP_RTP_DEACTIVE"})
  BY <1>2, <1>3 DEF Able, Turned, Through, Ready
<1>5. m.link.sock = "open"
  BY <1>2, <1>3 DEF Through
<1>6. QED
  BY <1>3, <1>4, <1>5 DEF Handled, Stops, Grew

LEMMA DialHandled ==
  ASSUME NEW m, GoodMachine(m), Sound(m), NEW x, NEW n, n = DfmtStartHookOff(m),
         n.link.sock = "open"
  PROVE  Handled(m, n, "dfmtStartHookOff", x)
<1>. DEFINE l == vt_sendTonePlay(m.link, endpt)
            p == [m.phone EXCEPT !.numberIndex = 0]
            k == [m EXCEPT !.phone.numberIndex = 0, !.link = vt_sendTonePlay(@, endpt),
                           !.typed = << >>]
<1>1. PICK h, q, s, u, c, o : m = [phone |-> h, queue |-> q, link |-> s, typed |-> u,
                                   called |-> c, ok |-> o]
  BY DEF GoodMachine, IsMachine
<1>2. n = Done(k)
  BY DEF DfmtStartHookOff
<1>3. k = [[[m EXCEPT !.phone = p] EXCEPT !.link = vt_sendTonePlay(@, endpt)]
             EXCEPT !.typed = << >>]
  OBVIOUS
<1>. HIDE DEF k, p
<1>4. k = [phone |-> p, queue |-> q, link |-> vt_sendTonePlay(s, endpt), typed |-> << >>,
           called |-> c, ok |-> o]
  BY <1>1, <1>3
<1>5. n.link = l /\ n.queue = m.queue /\ n.ok = TRUE
  BY <1>1, <1>2, <1>4 DEF Done
<1>6. Through(m.link, l, "VOIP_TONE_PLAY")
  BY ForOwnEndpt DEF Sound
<1>. HIDE DEF l
<1>7. Able(m.link, {}) => Turned(m.link, l, {})
  BY <1>5, <1>6 DEF Able, Turned, Through, Ready
<1>8. QED
  BY <1>5, <1>6, <1>7 DEF Handled, Stops, Grew, Through

LEMMA DigitHandled ==
  ASSUME NEW m, GoodMachine(m), NEW key, NEW x, NEW n, n = DfmtEndDtmfStart(m, key),
         n.link.sock = "open"
  PROVE  Handled(m, n, "dfmtEndDtmfStart", x)
<1>1. n.link = m.link /\ n.queue = m.queue
  BY DEF DfmtEndDtmfStart, Done, Undone, GoodMachine, IsMachine
<1>2. QED
  BY <1>1, QuietHandled DEF Grew, Stops, MayFail, GoodMachine

LEMMA CloseHandled ==
  ASSUME NEW m, IsMachine(m), Sound(m), NEW x, NEW n, n = CloseFd(m, x), n.link.sock = "open"
  PROVE  Handled(m, n, "closeFd", x)
<1>. DEFINE k == [m EXCEPT !.link.sock = "dead"]
<1>1. CASE n = Done(k)
  <2>1. n.link = [m.link EXCEPT !.sock = "dead"]
    BY <1>1 DEF Done, IsMachine
  <2>2. n.link.sock = "dead"
    BY <2>1 DEF Sound, LINK
  <2>3. QED
    BY <2>2
<1>2. CASE n = Done(m)
  <2>1. n.link = m.link /\ n.queue = m.queue /\ n.ok = TRUE
    BY <1>2 DEF Done, IsMachine
  <2>2. QED
    BY <2>1, QuietHandled DEF Grew, Stops
<1>3. QED
  BY <1>1, <1>2 DEF CloseFd

LEMMA CallHandled ==
  ASSUME NEW m, GoodMachine(m), Sound(m), NEW string, NEW x, NEW n, n = CallNumber(m, string, x),
         n.link.sock = "open"
  PROVE  Handled(m, n, "numDoneDtmfStart", x)
<1>. DEFINE k == [m EXCEPT !.called.number = Value(string), !.called.typed = m.typed]
<1>1. IsMachine(m)
  BY DEF GoodMachine
<1>2. IsMachine(k) /\ k.queue = m.queue /\ k.link = m.link
  <2>1. PICK p, q, l, t, u, v, w, o :
            m = [phone |-> p, queue |-> q, link |-> l, typed |-> t,
                 called |-> [number |-> u, typed |-> v, longest |-> w], ok |-> o]
    BY DEF GoodMachine, IsMachine, Good, IsRecord
  <2>2. PICK y : y = Value(string)
    OBVIOUS
  <2>3. k = [[m EXCEPT !.called.number = y] EXCEPT !.called.typed = t]
    BY <2>1, <2>2
  <2>. HIDE DEF k
  <2>4. k = [phone |-> p, queue |-> q, link |-> l, typed |-> t,
             called |-> [number |-> y, typed |-> t, longest |-> w], ok |-> o]
    BY <2>1, <2>3
  <2>5. QED
    BY <2>1, <2>4 DEF IsMachine
<1>3. n = IF x.session THEN Done(PutEvent(k, "NUM_CALLED")) ELSE Undone(PutEvent(m, "NUM_ERR"))
  BY DEF CallNumber
<1>. HIDE DEF k
<1>4. PICK e, f : e = Event("NUM_CALLED") /\ f = Event("NUM_ERR")
  OBVIOUS
<1>5. e \in EVENT /\ f \in EVENT /\ e.type \notin HookEvents /\ f.type \notin HookEvents
  BY <1>4 DEF Event, EVENT, HookEvents, Events, Places
<1>6. CASE n = Done(PutEvent(k, "NUM_CALLED"))
  <2>1. n.link = m.link /\ n.queue = Append(m.queue, e)
    BY <1>2, <1>4, <1>6 DEF Done, PutEvent, IsMachine
  <2>2. QED
    BY <1>1, <1>5, <2>1, QuietHandled DEF Grew, Stops, MayFail
<1>7. CASE n = Undone(PutEvent(m, "NUM_ERR"))
  <2>1. n.link = m.link /\ n.queue = Append(m.queue, f)
    BY <1>1, <1>4, <1>7 DEF Undone, PutEvent, IsMachine
  <2>2. QED
    BY <1>1, <1>5, <2>1, QuietHandled DEF Grew, Stops, MayFail
<1>8. QED
  BY <1>3, <1>6, <1>7

(* A number that begins with a star runs the action of its key.            *)
KeysRun == \A k \in DOMAIN table.keys : RunsTones(table, k)

LEMMA KeyHandled ==
  ASSUME NEW m, IsMachine(m), Sound(m), NEW string, NEW x, x.junk \in Seq(ARGUMENT),
         table \in TABLE, KeysRun, NEW n, n = RunKeyAction(m, string, x), n.link.sock = "open"
  PROVE  Handled(m, n, "numDoneDtmfStart", x)
<1>. DEFINE found == MatchingKey({string}, x.stale)
            k == CHOOSE k \in found : TRUE
            ran == RunAction(table, table.keys[k].index, m.link, <<Number(endpt)>>, x.junk)
<1>1. CASE found = {}
  <2>1. n = Undone(m)
    BY <1>1 DEF RunKeyAction
  <2>2. n.link = m.link /\ n.queue = m.queue
    BY <2>1 DEF Undone, IsMachine
  <2>3. QED
    BY <2>2, QuietHandled DEF Grew, Stops, MayFail
<1>2. CASE found # {}
  <2>. DEFINE T == {j \in DOMAIN table.keys :
                      IF table.keys[j].stale THEN j \in x.stale ELSE table.keys[j].key \in {string}}
  <2>1. k \in DOMAIN table.keys
    <3>1. found = FirstOf(T)
      BY DEF MatchingKey
    <3>2. T \subseteq DOMAIN table.keys /\ DOMAIN table.keys \subseteq Nat
      BY DEF TABLE
    <3>3. k \in found
      BY <1>2
    <3>. HIDE DEF T, k, found
    <3>4. k \in T
      BY <3>1, <3>2, <3>3, FirstIn
    <3>5. QED
      BY <3>2, <3>4
  <2>2. RunsTones(table, k)
    BY <2>1 DEF KeysRun
  <2>3. n = [[m EXCEPT !.link = ran] EXCEPT !.ok = ~ Failed(ran)]
    BY <1>2 DEF RunKeyAction
  <2>. HIDE DEF k, found
  <2>4. PICK l : l = ran
    OBVIOUS
  <2>5. n.link = l /\ n.queue = m.queue
    <3>. HIDE DEF ran
    <3>1. QED
      BY <2>3, <2>4 DEF IsMachine
  <2>6. l = RunAction(table, table.keys[k].index, m.link, <<Number(endpt)>>, x.junk)
        /\ l.sock = "open"
    BY <2>4, <2>5
  <2>7. m.link.sock = "open"
    BY <2>2, <2>6, KeyOpensNone DEF Sound
  <2>8. Steady(m.link) => Turned(m.link, l, {})
    BY <2>2, <2>6, KeyTurns
  <2>9. QED
    BY <2>5, <2>7, <2>8 DEF Handled, Able, Grew, Stops, MayFail
<1>3. QED
  BY <1>1, <1>2

LEMMA HandlerHandles ==
  ASSUME NEW m, GoodMachine(m), Sound(m), NEW name \in Handlers \ {"hookFlashAny"}, NEW event,
         NEW x, x.junk \in Seq(ARGUMENT), table \in TABLE, KeysRun,
         NEW n, n = EventHandler(name, m, event, x), n.link.sock = "open"
  PROVE  Handled(m, n, name, x)
<1>0. IsMachine(m)
  BY DEF GoodMachine
<1>1. CASE name \in {"dummy", "hookFlashTalking", "numErrDtmfStart", "beCalledHookOn"}
  <2>1. n = Done(m)
    BY <1>1 DEF EventHandler
  <2>2. n.link = m.link /\ n.queue = m.queue /\ n.ok = TRUE
    BY <1>0, <2>1 DEF Done, IsMachine
  <2>3. QED
    BY <1>0, <1>1, <2>2, QuietHandled DEF Grew, Stops
<1>2. CASE name \in {"hookOnCalling", "hookOffBeCalled", "rejectCall"}
  <2>1. n = SendCallMsg(m, x)
    BY <1>2 DEF EventHandler
  <2>2. n.link = m.link /\ n.queue = m.queue /\ n.ok = x.session
    BY <1>0, <2>1 DEF SendCallMsg, IsMachine
  <2>3. QED
    BY <1>0, <1>2, <2>2, QuietHandled DEF Grew, Stops
<1>3. CASE name = "hookOnTalking"
  BY <1>3, SilenceHandled DEF EventHandler
<1>4. CASE name = "dfmtStartHookOff"
  BY <1>4, DialHandled DEF EventHandler
<1>5. CASE name = "dfmtEndDtmfStart"
  BY <1>5, DigitHandled DEF EventHandler
<1>6. CASE name = "numDoneDtmfStart"
  <2>1. n = NumDoneDtmfStart(m, x)
    BY <1>6 DEF EventHandler
  <2>2. PICK string : string = Spelled(m.phone)
    OBVIOUS
  <2>3. n = RunKeyAction(m, string, x) \/ n = CallNumber(m, string, x)
    BY <2>1, <2>2 DEF NumDoneDtmfStart
  <2>4. QED
    BY <1>0, <1>6, <2>3, KeyHandled, CallHandled
<1>7. CASE name = "closeFd"
  BY <1>0, <1>7, CloseHandled DEF EventHandler
<1>8. QED
  BY <1>1, <1>2, <1>3, <1>4, <1>5, <1>6, <1>7 DEF Handlers

-----------------------------------------------------------------------------
(* What a row has done, its handler included, in quiet times.              *)
RowNeeds(r) == Needs(r) \union Stops(FsmCtxs[r].handler)

Stepped(m, n, r) ==
  /\ m.link.sock = "open"
  /\ Able(m.link, RowNeeds(r)) =>
       /\ Turned(m.link, n.link, RowNeeds(r)) /\ Grew(m.queue, n.queue)
       /\ FsmCtxs[r].handler \notin MayFail =>
            n.phone.fxsState = IF FsmCtxs[r].new = "MAX" THEN m.phone.fxsState ELSE FsmCtxs[r].new
       /\ FsmCtxs[r].handler \in MayFail => n.phone.fxsState \in {m.phone.fxsState, FsmCtxs[r].new}

LEMMA RowHandlers ==
  /\ \A r \in Rows \ {7} : FsmCtxs[r].handler \in Handlers \ {"hookFlashAny"}
  /\ \A r \in Rows \ {2} : Stops(FsmCtxs[r].handler) = {}
  /\ Stops(FsmCtxs[2].handler) = {"VOIP_RTP_DEACTIVE"}
  /\ \A r \in Rows \ {9, 10} : FsmCtxs[r].handler \notin MayFail
<1>1. \A r \in Rows : FsmCtxs[r].handler \in Handlers
  BY RowsKnown
<1>2. /\ FsmCtxs[1].handler = "hookOnCalling" /\ FsmCtxs[2].handler = "hookOnTalking"
      /\ FsmCtxs[3].handler = "dummy" /\ FsmCtxs[4].handler = "hookOffBeCalled"
      /\ FsmCtxs[5].handler = "dummy" /\ FsmCtxs[6].handler = "hookFlashTalking"
      /\ FsmCtxs[8].handler = "dfmtStartHookOff" /\ FsmCtxs[9].handler = "dfmtEndDtmfStart"
      /\ FsmCtxs[7].handler = "hookFlashAny"
      /\ FsmCtxs[10].handler = "numDoneDtmfStart" /\ FsmCtxs[11].handler = "dummy"
      /\ FsmCtxs[12].handler = "closeFd" /\ FsmCtxs[13].handler = "numErrDtmfStart"
      /\ FsmCtxs[14].handler = "beCalledHookOn" /\ FsmCtxs[15].handler = "rejectCall"
      /\ FsmCtxs[16].handler = "dummy" /\ FsmCtxs[17].handler = "closeFd"
      /\ FsmCtxs[18].handler = "closeFd" /\ FsmCtxs[19].handler = "closeFd"
  BY DEF FsmCtxs, Row
<1>3. \A r \in Rows : \/ r = 1 \/ r = 2 \/ r = 3 \/ r = 4 \/ r = 5 \/ r = 6 \/ r = 7 \/ r = 8 \/ r = 9
                      \/ r = 10 \/ r = 11 \/ r = 12 \/ r = 13 \/ r = 14 \/ r = 15 \/ r = 16 \/ r = 17
                      \/ r = 18 \/ r = 19
  BY RowsAre
<1>4. \A r \in Rows : FsmCtxs[r].handler = "hookFlashAny" => r = 7
  BY <1>2, <1>3
<1>5. \A r \in Rows : FsmCtxs[r].handler = "hookOnTalking" => r = 2
  BY <1>2, <1>3
<1>6. \A r \in Rows : FsmCtxs[r].handler \in MayFail => r \in {9, 10}
  BY <1>2, <1>3 DEF MayFail
<1>7. QED
  BY <1>1, <1>2, <1>4, <1>5, <1>6 DEF Stops

LEMMA TurnedTwice ==
  ASSUME NEW s, NEW u, NEW v, NEW needs, NEW stops, Turned(s, u, needs), Turned(u, v, stops),
         stops = {} \/ (needs = {} /\ stops = {"VOIP_RTP_DEACTIVE"})
  PROVE  Turned(s, v, needs \union stops)
  BY DEF Turned

(* The action of a row and its handler together.                           *)
LEMMA RowSteps ==
  ASSUME NEW m, GoodMachine(m), Sound(m), NEW r \in Rows \ {7}, RunsSuited(table, r), NEW event,
         NEW x, x.junk \in Seq(ARGUMENT), x.session, table \in TABLE, KeysRun,
         NEW n, n = FsmGo(m, FsmCtxs[r], table.rows[r], RowWords(r), event, x, Alone),
         n.link.sock = "open"
  PROVE  Stepped(m, n, r)
<1>. DEFINE row == FsmCtxs[r]
            l == RunAction(table, table.rows[r], m.link, RowWords(r), x.junk)
            ran == [m EXCEPT !.link = RunAction(table, table.rows[r], @, RowWords(r), x.junk)]
            after == EventHandler(row.handler, ran, event, x)
            moved == [after EXCEPT !.phone.fxsState = row.new]
<1>1. n = CASE ran.link.beyond -> ran
            [] ~ran.link.beyond /\ Failed(ran.link) -> Undone(ran)
            [] OTHER -> IF after.link.beyond \/ ~after.ok \/ row.new = "MAX" THEN after
                        ELSE moved
  BY Uninterrupted DEF FsmGo
<1>2. l \in LINK
  <2>1. RowWords(r) \in Seq(ARGUMENT) /\ table.rows[r] \in Nat
    BY DataAreWords DEF RowWords, TABLE
  <2>2. QED
    BY <2>1, ActionRuns DEF Sound
<1>3. ran = [m EXCEPT !.link = l]
  BY DEF GoodMachine, IsMachine
<1>4. l.sock = "open" => m.link.sock = "open" /\ (Able(m.link, Needs(r)) => Turned(m.link, l, Needs(r)))
  BY RowTurns, RowOpensNone DEF Sound
<1>5. row.handler \in Handlers \ {"hookFlashAny"} /\ row.new \in States
  BY RowHandlers, RowsKnown
<1>. HIDE DEF ran, l, row
<1>6. /\ IsMachine(ran) /\ ran.link = l /\ ran.queue = m.queue /\ ran.phone = m.phone
      /\ GoodMachine(ran)
  <2>1. Untouched(m, ran)
    BY <1>3, SmallSteps DEF GoodMachine
  <2>2. QED
    BY <1>3, <2>1, LinkOnly, UntouchedIsGood DEF GoodMachine
<1>7. Sound(ran)
  BY <1>2, <1>6 DEF Sound
<1>8. /\ after.link.sock = "open" => Handled(ran, after, row.handler, x)
      /\ GoodMachine(after) /\ after.phone.fxsState = m.phone.fxsState
  <2>1. after.link.sock = "open" => Handled(ran, after, row.handler, x)
    BY <1>5, <1>6, <1>7, HandlerHandles
  <2>2. GoodMachine(after) /\ Effects(ran, after, Gain(row.handler))
    BY <1>5, <1>6, <1>7, HandlerEffects, HandlerKeeps
  <2>3. QED
    BY <1>6, <2>1, <2>2 DEF Effects
<1>. HIDE DEF after
<1>9. /\ moved.queue = after.queue /\ moved.link = after.link /\ moved.phone.fxsState = row.new
  BY <1>8 DEF GoodMachine, IsMachine, Good, PHONE
<1>. HIDE DEF moved
<1>10. Able(m.link, RowNeeds(r)) => Able(m.link, Needs(r))
  BY DEF Able, RowNeeds, row
<1>11. CASE n = ran /\ ran.link.beyond
  <2>1. l.sock = "open" /\ l.beyond
    BY <1>6, <1>11
  <2>2. ~ Able(m.link, RowNeeds(r)) /\ m.link.sock = "open"
    BY <1>4, <1>10, <2>1 DEF Turned, Steady
  <2>3. QED
    BY <2>2 DEF Stepped
<1>12. CASE n = Undone(ran) /\ Failed(ran.link)
  <2>1. n.link = l
    BY <1>6, <1>12 DEF Undone, IsMachine
  <2>2. ~ Able(m.link, RowNeeds(r)) /\ m.link.sock = "open"
    BY <1>4, <1>6, <1>10, <1>12, <2>1 DEF Turned, Steady
  <2>3. QED
    BY <2>2 DEF Stepped
<1>13. CASE n = after \/ n = moved
  <2>1. n.link = after.link /\ n.queue = after.queue /\ after.link.sock = "open"
    BY <1>9, <1>13
  <2>2. Handled(ran, after, row.handler, x)
    BY <1>8, <2>1
  <2>3. l.sock = "open" /\ m.link.sock = "open"
    BY <1>4, <1>6, <2>2 DEF Handled
  <2>4. ASSUME Able(m.link, RowNeeds(r))
        PROVE  /\ Turned(m.link, after.link, RowNeeds(r)) /\ Grew(m.queue, after.queue)
               /\ ~ after.link.beyond
               /\ row.handler \notin MayFail => after.ok
    <3>1. Turned(m.link, l, Needs(r))
      BY <1>4, <1>10, <2>3, <2>4
    <3>2. Able(l, Stops(row.handler))
      BY <2>4, <3>1 DEF Able, Turned, RowNeeds, row
    <3>3. Turned(l, after.link, Stops(row.handler))
      BY <1>6, <2>2, <3>2 DEF Handled
    <3>4. Stops(row.handler) = {} \/ (Needs(r) = {} /\ Stops(row.handler) = {"VOIP_RTP_DEACTIVE"})
      <4>1. CASE r = 2
        BY <4>1, RowHandlers, RowsNeed DEF row
      <4>2. CASE r # 2
        BY <4>2, RowHandlers DEF row
      <4>3. QED
        BY <4>1, <4>2
    <3>5. Turned(m.link, after.link, Needs(r) \union Stops(row.handler))
      BY <3>1, <3>3, <3>4, TurnedTwice
    <3>6. Turned(m.link, after.link, RowNeeds(r)) /\ ~ after.link.beyond
      BY <3>5 DEF RowNeeds, row, Turned, Steady
    <3>7. QED
      BY <1>6, <2>2, <3>6 DEF Handled
  <2>5. ASSUME Able(m.link, RowNeeds(r))
        PROVE  /\ row.handler \notin MayFail =>
                    n.phone.fxsState = IF row.new = "MAX" THEN m.phone.fxsState ELSE row.new
               /\ n.phone.fxsState \in {m.phone.fxsState, row.new}
    <3>1. ~ ran.link.beyond /\ ~ Failed(ran.link)
      BY <1>4, <1>6, <1>10, <2>3, <2>5 DEF Turned, Steady
    <3>2. n = IF after.link.beyond \/ ~after.ok \/ row.new = "MAX" THEN after ELSE moved
      BY <1>1, <3>1
    <3>3. QED
      BY <1>8, <1>9, <2>4, <2>5, <3>2
  <2>6. QED
    BY <2>1, <2>3, <2>4, <2>5 DEF Stepped, row
<1>14. QED
  BY <1>1, <1>11, <1>12, <1>13

-----------------------------------------------------------------------------
(* The row for all states stands behind those for one.                     *)
LEMMA FirstRow ==
  ASSUME NEW event, NEW state, NEW r \in SearchFsmCtx(event, state)
  PROVE  /\ r \in Rows /\ FsmCtxs[r].event = event /\ FsmCtxs[r].cur \in {state, "MAX"}
         /\ r = 3 => state \notin {"CALLING", "TALKING"}
         /\ r = 5 => state # "BE_CALLED"
         /\ r = 15 => state # "HOOK_ON"
<1>. DEFINE T == {q \in Rows : FsmCtxs[q].event = event /\ FsmCtxs[q].cur \in {state, "MAX"}}
<1>1. T \subseteq Nat
  BY RowsKnown
<1>2. SearchFsmCtx(event, state) = FirstOf(T)
  BY DEF SearchFsmCtx
<1>3. r \in T /\ \A q \in T : r <= q
  <2>. HIDE DEF T
  <2>1. QED
    BY <1>1, <1>2, FirstIn
<1>4. r \in Rows /\ FsmCtxs[r].event = event /\ FsmCtxs[r].cur \in {state, "MAX"}
  BY <1>3
<1>5. ASSUME NEW q \in Rows, FsmCtxs[q].event = event, FsmCtxs[q].cur = state
      PROVE  r <= q
  <2>1. q \in T
    BY <1>5
  <2>2. QED
    BY <1>3, <2>1
<1>. HIDE DEF T
<1>6. r = 3 => state \notin {"CALLING", "TALKING"}
  <2>1. ASSUME r = 3, state = "CALLING" PROVE FALSE
    <3>1. r <= 1
      BY <1>4, <1>5, <2>1, RowsAre
    <3>2. QED
      BY <2>1, <3>1
  <2>2. ASSUME r = 3, state = "TALKING" PROVE FALSE
    <3>1. r <= 2
      BY <1>4, <1>5, <2>2, RowsAre
    <3>2. QED
      BY <2>2, <3>1
  <2>3. QED
    BY <2>1, <2>2
<1>7. r = 5 => state # "BE_CALLED"
  <2>1. ASSUME r = 5, state = "BE_CALLED" PROVE FALSE
    <3>1. r <= 4
      BY <1>4, <1>5, <2>1, RowsAre
    <3>2. QED
      BY <2>1, <3>1
  <2>2. QED
    BY <2>1
<1>8. r = 15 => state # "HOOK_ON"
  <2>1. ASSUME r = 15, state = "HOOK_ON" PROVE FALSE
    <3>1. r <= 14
      BY <1>4, <1>5, <2>1, RowsAre
    <3>2. QED
      BY <2>1, <3>1
  <2>2. QED
    BY <2>1
<1>9. QED
  BY <1>4, <1>6, <1>7, <1>8

LEMMA HookHasRow ==
  ASSUME NEW state
  PROVE  SearchFsmCtx("HOOK_ON", state) # {} /\ SearchFsmCtx("HOOK_OFF", state) # {}
<1>1. ASSUME NEW event, NEW r \in Rows, FsmCtxs[r].event = event, FsmCtxs[r].cur = "MAX"
      PROVE  SearchFsmCtx(event, state) # {}
  <2>1. r \in {q \in Rows : FsmCtxs[q].event = event /\ FsmCtxs[q].cur \in {state, "MAX"}}
    BY <1>1
  <2>2. QED
    BY <2>1 DEF SearchFsmCtx, FirstOf
<1>2. QED
  BY <1>1, RowsAre

LEMMA WordsFound ==
  ASSUME NEW event, NEW state, NEW r \in SearchFsmCtx(event.type, state)
  PROVE  ActionData(event, state) = RowWords(r)
<1>. DEFINE one == <<Number(endpt)>>
            two == <<Number(endpt), Number(456)>>
<1>1. PICK e, c : e = Event(FsmCtxs[r].event) /\ c = FsmCtxs[r].cur
  OBVIOUS
<1>2. e.type = event.type
  BY <1>1, FirstRow DEF Event
<1>3. ASSUME NEW v, NEW s
      PROVE  ActionData(v, s) =
        CASE v.type = "CALLING" /\ s = "HOOK_ON" -> two
          [] \/ v.type = "HOOK_OFF" /\ s = "BE_CALLED"
             \/ v.type = "CALL_ACCEPT" -> TalkWords
          [] v.type = "DTMF_END" \/ (v.type = "CALLING" /\ s # "HOOK_ON") -> << >>
          [] OTHER -> one
  BY DEF ActionData, TalkWords
<1>. HIDE DEF one, two
<1>4. /\ r \in Rows /\ event.type = FsmCtxs[r].event /\ c \in {state, "MAX"}
      /\ r = 5 => state # "BE_CALLED"
      /\ r = 15 => state # "HOOK_ON"
  BY <1>1, FirstRow
<1>5. \A q \in Rows : FsmCtxs[q].event = "CALLING" /\ FsmCtxs[q].cur = "MAX" => q = 15
  BY RowsAre
<1>6. \A q \in Rows : FsmCtxs[q].event = "HOOK_OFF" /\ FsmCtxs[q].cur = "MAX" => q = 5
  BY RowsAre
<1>7. event.type = "CALLING" => (state = "HOOK_ON" <=> c = "HOOK_ON")
  BY <1>1, <1>4, <1>5
<1>8. event.type = "HOOK_OFF" => (state = "BE_CALLED" <=> c = "BE_CALLED")
  BY <1>1, <1>4, <1>6
<1>9. ActionData(event, state) = ActionData(e, c)
  BY <1>2, <1>3, <1>7, <1>8
<1>10. QED
  BY <1>1, <1>9 DEF RowWords

-----------------------------------------------------------------------------
(* The unread events are those of a handset that was at a when they began  *)
(* and is at h now.                                                        *)
Hooks == {"on", "off"}
Turns(type, a, b) ==
  /\ type # "HOOK_FLASH"
  /\ type = "HOOK_OFF" => a = "on" /\ b = "off"
  /\ type = "HOOK_ON" => a = "off" /\ b = "on"
  /\ type \notin HookEvents => a = b

(* pos tells where the handset was before each of the events.              *)
Walk(pos, q, a, h) ==
  /\ pos \in [0 .. Len(q) -> Hooks] /\ pos[0] = a /\ pos[Len(q)] = h
  /\ \A i \in 1 .. Len(q) : Turns(q[i].type, pos[i - 1], pos[i])

Leads(q, a, h) == \E pos : Walk(pos, q, a, h)

LEMMA NoneLead == \A a \in Hooks : Leads(<< >>, a, a)
<1>1. ASSUME NEW a \in Hooks
      PROVE  Walk([i \in 0 .. 0 |-> a], << >>, a, a)
  <2>1. PICK none, pos : none = << >> /\ pos = [i \in 0 .. 0 |-> a]
    OBVIOUS
  <2>2. Len(none) = 0 /\ 0 \in 0 .. 0 /\ \A i \in 1 .. 0 : FALSE
    BY <2>1
  <2>3. Walk(pos, none, a, a)
    BY <2>1, <2>2 DEF Walk
  <2>4. QED
    BY <2>1, <2>3
<1>2. QED
  BY <1>1 DEF Leads

LEMMA AppendLeads ==
  ASSUME NEW q \in Seq(EVENT), NEW a, NEW h, Leads(q, a, h), NEW e, NEW k \in Hooks,
         Turns(e.type, h, k)
  PROVE  Leads(Append(q, e), a, k)
<1>1. PICK pos : Walk(pos, q, a, h)
  BY DEF Leads
<1>2. PICK p, n : p = Append(q, e) /\ n = Len(q)
  OBVIOUS
<1>3. n \in Nat /\ Len(p) = n + 1 /\ p[n + 1] = e /\ \A i \in 1 .. n : p[i] = q[i]
  BY <1>2
<1>. DEFINE new == [i \in 0 .. n + 1 |-> IF i = n + 1 THEN k ELSE pos[i]]
<1>4. new \in [0 .. n + 1 -> Hooks] /\ new[n + 1] = k /\ \A i \in 0 .. n : new[i] = pos[i]
  BY <1>1, <1>2, <1>3 DEF Walk
<1>. HIDE DEF new
<1>5. ASSUME NEW i \in 1 .. n + 1
      PROVE  Turns(p[i].type, new[i - 1], new[i])
  <2>1. CASE i = n + 1
    <3>1. i - 1 = n /\ n \in 0 .. n
      BY <1>3, <2>1
    <3>2. new[i - 1] = h /\ new[i] = k /\ p[i] = e
      BY <1>1, <1>2, <1>3, <1>4, <2>1, <3>1 DEF Walk
    <3>3. QED
      BY <3>2
  <2>2. CASE i # n + 1
    <3>1. i \in 1 .. n /\ i \in 0 .. n /\ i - 1 \in 0 .. n
      BY <1>3, <2>2
    <3>2. QED
      BY <1>1, <1>2, <1>3, <1>4, <3>1 DEF Walk
  <2>3. QED
    BY <2>1, <2>2
<1>6. 0 \in 0 .. n
  BY <1>3
<1>7. Walk(new, p, a, k)
  BY <1>1, <1>3, <1>4, <1>5, <1>6 DEF Walk
<1>8. QED
  BY <1>2, <1>7 DEF Leads

LEMMA GrewLeads ==
  ASSUME NEW q \in Seq(EVENT), NEW a, NEW h \in Hooks, Leads(q, a, h), NEW p, Grew(q, p)
  PROVE  Leads(p, a, h)
<1>1. CASE p = q
  BY <1>1
<1>2. ASSUME NEW e \in EVENT, e.type \notin HookEvents, p = Append(q, e)
      PROVE  Leads(p, a, h)
  <2>1. Turns(e.type, h, h)
    BY <1>2 DEF Turns, HookEvents
  <2>2. QED
    BY <1>2, <2>1, AppendLeads
<1>3. QED
  BY <1>1, <1>2 DEF Grew

LEMMA TailLeads ==
  ASSUME NEW q \in Seq(EVENT), q # << >>, NEW a, NEW h, Leads(q, a, h)
  PROVE  \E b \in Hooks : Turns(Head(q).type, a, b) /\ Leads(Tail(q), b, h)
<1>1. PICK pos : Walk(pos, q, a, h)
  BY DEF Leads
<1>2. PICK p, n : p = Tail(q) /\ n = Len(q)
  OBVIOUS
<1>3. n \in Nat /\ n >= 1 /\ Len(p) = n - 1 /\ Head(q) = q[1] /\ \A i \in 1 .. n - 1 : p[i] = q[i + 1]
  BY <1>2
<1>. DEFINE new == [i \in 0 .. n - 1 |-> pos[i + 1]]
<1>4. \A i \in 0 .. n - 1 : i + 1 \in 0 .. n /\ i + 1 \in 1 .. n
  BY <1>3
<1>5. new \in [0 .. n - 1 -> Hooks] /\ \A i \in 0 .. n - 1 : new[i] = pos[i + 1]
  BY <1>1, <1>2, <1>4 DEF Walk
<1>. HIDE DEF new
<1>6. ASSUME NEW i \in 1 .. n - 1
      PROVE  Turns(p[i].type, new[i - 1], new[i])
  <2>1. i \in 0 .. n - 1 /\ i - 1 \in 0 .. n - 1 /\ (i - 1) + 1 = i /\ i + 1 \in 1 .. n
        /\ (i + 1) - 1 = i
    BY <1>3
  <2>2. new[i - 1] = pos[i] /\ new[i] = pos[i + 1] /\ p[i] = q[i + 1]
    BY <1>3, <1>5, <2>1
  <2>3. Turns(q[i + 1].type, pos[(i + 1) - 1], pos[i + 1])
    BY <1>1, <1>2, <2>1 DEF Walk
  <2>4. QED
    BY <2>1, <2>2, <2>3
<1>7. 0 \in 0 .. n - 1 /\ n - 1 \in 0 .. n - 1 /\ (n - 1) + 1 = n /\ 1 \in 1 .. n /\ 1 \in 0 .. n
      /\ 0 + 1 = 1 /\ 1 - 1 = 0
  BY <1>3
<1>8. new[0] = pos[1] /\ new[n - 1] = h /\ pos[1] \in Hooks /\ pos[0] = a
  BY <1>1, <1>2, <1>5, <1>7 DEF Walk
<1>9. Walk(new, p, pos[1], h)
  BY <1>3, <1>5, <1>6, <1>8 DEF Walk
<1>10. Turns(Head(q).type, a, pos[1])
  <2>1. Turns(q[1].type, pos[1 - 1], pos[1])
    BY <1>1, <1>2, <1>7 DEF Walk
  <2>2. QED
    BY <1>3, <1>7, <1>8, <2>1
<1>11. QED
  BY <1>2, <1>8, <1>9, <1>10 DEF Leads

-----------------------------------------------------------------------------
(* Where the handset was when the state was entered, as far as the state   *)
(* tells, and what the server does for the telephone in that state.        *)
Placed(state, a) ==
  /\ state \in {"HOOK_ON", "BE_CALLED"} => a = "on"
  /\ state \in {"HOOK_OFF", "DTMF_START", "CALLING", "TALKING"} => a = "off"

Fits(s, state) ==
  /\ Rings(s) <=> state = "BE_CALLED"
  /\ Speaks(s) <=> state = "TALKING"
  /\ state = "TALKING" => s.openChannel[endpt] = endpt

LEMMA RowFits ==
  ASSUME NEW m, NEW n, NEW r, Stepped(m, n, r), Steady(m.link),
         NEW state, state = m.phone.fxsState, state \in NewStates, Fits(m.link, state),
         NEW e, r \in SearchFsmCtx(e, state),
         NEW a, NEW b, Placed(state, a), Turns(e, a, b), n.phone.fxsState # "MAX"
  PROVE  /\ Steady(n.link) /\ Fits(n.link, n.phone.fxsState) /\ Placed(n.phone.fxsState, b)
         /\ Grew(m.queue, n.queue)
<1>. DEFINE cur == FsmCtxs[r].cur
            new == FsmCtxs[r].new
            t == n.phone.fxsState
            needs == RowNeeds(r)
<1>0. /\ Steady(m.link) /\ Fits(m.link, state) /\ Placed(state, a) /\ Turns(e, a, b)
      /\ t # "MAX"
  OBVIOUS
<1>1. /\ r \in Rows /\ FsmCtxs[r].event = e /\ cur \in {state, "MAX"} /\ state # "MAX"
      /\ r = 3 => state \notin {"CALLING", "TALKING"}
      /\ r = 5 => state # "BE_CALLED"
  BY FirstRow DEF NewStates
<1>2. /\ \/ r = 1 \/ r = 2 \/ r = 3 \/ r = 4 \/ r = 5 \/ r = 6 \/ r = 7 \/ r = 8 \/ r = 9
         \/ r = 10 \/ r = 11 \/ r = 12 \/ r = 13 \/ r = 14 \/ r = 15 \/ r = 16 \/ r = 17
         \/ r = 18 \/ r = 19
  BY <1>1, RowsAre
<1>3. r # 6 /\ r # 7
  BY <1>1, RowsAre DEF Turns
<1>4. /\ r \in {1, 3, 5, 8, 9, 10, 11, 12, 13, 15, 19} => needs = {}
      /\ r \in {2, 18} => needs = {"VOIP_RTP_DEACTIVE"}
      /\ r = 4 => needs = {"VOIP_RING_STOP", "VOIP_RTP_ACTIVE"}
      /\ r = 14 => needs = {"VOIP_RING_START"}
      /\ r = 16 => needs = {"VOIP_RTP_ACTIVE"}
      /\ r = 17 => needs = {"VOIP_RING_STOP"}
  <2>1. r # 2 => needs = Needs(r)
    BY <1>1, RowHandlers DEF RowNeeds
  <2>2. r = 2 => needs = {"VOIP_RTP_DEACTIVE"}
    BY <1>1, RowHandlers, RowsNeed, RowsAre DEF RowNeeds
  <2>3. QED
    BY <1>1, <2>1, <2>2, RowsNeed
<1>5. r \in {2, 18} => state = "TALKING"
  BY <1>1, RowsAre
<1>6. Able(m.link, needs)
  <2>1. CASE r \in {2, 18}
    BY <1>0, <1>5, <2>1 DEF Able, Fits
  <2>2. CASE r \notin {2, 18}
    <3>1. "VOIP_RTP_DEACTIVE" \notin needs
      <4>1. r \in {1, 3, 5, 8, 9, 10, 11, 12, 13, 15, 19} \/ r = 4 \/ r = 14 \/ r = 16 \/ r = 17
        BY <1>2, <1>3, <2>2
      <4>2. needs \in {{}, {"VOIP_RING_STOP", "VOIP_RTP_ACTIVE"}, {"VOIP_RING_START"},
                      {"VOIP_RTP_ACTIVE"}, {"VOIP_RING_STOP"}}
        BY <1>4, <4>1
      <4>3. QED
        BY <4>2
    <3>2. QED
      BY <1>0, <3>1 DEF Able
  <2>3. QED
    BY <2>1, <2>2
<1>7. /\ Turned(m.link, n.link, needs) /\ Grew(m.queue, n.queue)
      /\ r \notin {9, 10} => t = IF new = "MAX" THEN state ELSE new
      /\ r \in {9, 10} => t = state \/ t = new
  <2>1. r \notin {9, 10} => FsmCtxs[r].handler \notin MayFail
    BY <1>1, RowHandlers
  <2>2. QED
    BY <1>6, <2>1 DEF Stepped
<1>. SUFFICES Fits(n.link, t) /\ Placed(t, b)
  BY <1>7 DEF Turned
<1>8. CASE r \in {1, 3, 5, 8, 9, 10, 11, 12, 13, 15, 19}
  <2>1. /\ Rings(n.link) <=> Rings(m.link)
        /\ Speaks(n.link) <=> Speaks(m.link)
        /\ m.link.openChannel[endpt] = endpt => n.link.openChannel[endpt] = endpt
    BY <1>4, <1>7, <1>8 DEF Rings, Speaks, Turned
  <2>2. CASE t = state /\ e \notin {"HOOK_ON", "HOOK_OFF", "HOOK_FLASH"}
    BY <1>0, <2>1, <2>2 DEF Rings, Speaks, Fits, Turns, Placed, HookEvents
  <2>3. CASE r = 1 \/ r = 3
    <3>1. e = "HOOK_ON" /\ t = "HOOK_ON"
      BY <1>1, <1>7, <2>3, RowsAre
    <3>2. a = "off" /\ b = "on"
      BY <1>0, <3>1 DEF Rings, Speaks, Turns
    <3>3. state # "TALKING"
      BY <1>1, <2>3, RowsAre
    <3>4. QED
      BY <1>0, <2>1, <3>1, <3>2, <3>3 DEF Rings, Speaks, Fits, Placed
  <2>4. CASE r = 5
    <3>1. e = "HOOK_OFF" /\ t = "HOOK_OFF"
      BY <1>1, <1>7, <2>4, RowsAre
    <3>2. a = "on" /\ b = "off"
      BY <1>0, <3>1 DEF Rings, Speaks, Turns
    <3>3. QED
      BY <1>0, <1>1, <2>1, <2>4, <3>1, <3>2 DEF Rings, Speaks, Fits, Placed
  <2>5. CASE r = 8 \/ r = 11 \/ r = 13 \/ r = 19
    <3>1. /\ state \in {"HOOK_OFF", "DTMF_START", "CALLING"}
          /\ t \in {"DTMF_START", "CALLING", "CALLING_FAILED", "CALL_REJECT"}
          /\ e \in {"DTMF_START", "NUM_CALLED", "NUM_ERR", "CALL_REJECT"}
      BY <1>1, <1>7, <2>5, RowsAre
    <3>2. a = "off" /\ b = "off"
      BY <1>0, <3>1 DEF Rings, Speaks, Turns, Placed, HookEvents
    <3>3. QED
      BY <1>0, <2>1, <3>1, <3>2 DEF Rings, Speaks, Fits, Placed
  <2>6. CASE r = 9 \/ r = 10 \/ r = 12 \/ r = 15
    <3>1. /\ e \in {"DTMF_END", "NUM_DONE", "NUM_CALLED", "CALLING"}
          /\ r \in {9, 10} => state = "DTMF_START"
          /\ new \in {"MAX", "DTMF_START"} /\ (r # 9 => new = "MAX")
      BY <1>1, <2>6, RowsAre
    <3>2. r \in {12, 15} => t = state
      BY <1>0, <1>7, <3>1
    <3>3. r = 9 => t = state
      BY <1>0, <1>7, <3>1
    <3>4. r = 10 => t = state
      BY <1>0, <1>7, <3>1
    <3>5. QED
      BY <1>0, <2>1, <2>2, <2>6, <3>1, <3>2, <3>3, <3>4 DEF Rings, Speaks, Fits, Placed
  <2>7. QED
    BY <1>8, <2>3, <2>4, <2>5, <2>6
<1>9. CASE r = 2
  <2>1. e = "HOOK_ON" /\ t = "HOOK_ON" /\ state = "TALKING" /\ ~ Speaks(n.link)
        /\ (Rings(n.link) <=> Rings(m.link))
    BY <1>0, <1>1, <1>4, <1>7, <1>9, RowsAre DEF Rings, Speaks, Turned
  <2>2. QED
    BY <1>0, <2>1 DEF Rings, Speaks, Turns, Fits, Placed
<1>10. CASE r = 18
  <2>1. t = "CALL_DOWN" /\ state = "TALKING" /\ ~ Speaks(n.link)
        /\ (Rings(n.link) <=> Rings(m.link))
    BY <1>0, <1>1, <1>4, <1>7, <1>10, RowsAre DEF Rings, Speaks, Turned
  <2>2. QED
    BY <1>0, <2>1 DEF Rings, Speaks, Fits, Placed
<1>11. CASE r = 17
  <2>1. t = "CALL_DOWN" /\ state = "BE_CALLED" /\ ~ Rings(n.link)
        /\ (Speaks(n.link) <=> Speaks(m.link))
    BY <1>0, <1>1, <1>4, <1>7, <1>11, RowsAre DEF Rings, Speaks, Turned
  <2>2. QED
    BY <1>0, <2>1 DEF Rings, Speaks, Fits, Placed
<1>12. CASE r = 4
  <2>1. e = "HOOK_OFF" /\ t = "TALKING" /\ state = "BE_CALLED" /\ ~ Rings(n.link)
        /\ Speaks(n.link) /\ n.link.openChannel[endpt] = endpt
    BY <1>0, <1>1, <1>4, <1>7, <1>12, RowsAre DEF Rings, Speaks, Turned
  <2>2. QED
    BY <1>0, <2>1 DEF Rings, Speaks, Fits, Placed, Turns
<1>13. CASE r = 14
  <2>1. e = "CALLING" /\ t = "BE_CALLED" /\ state = "HOOK_ON" /\ Rings(n.link)
        /\ (Speaks(n.link) <=> Speaks(m.link))
    BY <1>0, <1>1, <1>4, <1>7, <1>13, RowsAre DEF Rings, Speaks, Turned
  <2>2. QED
    BY <1>0, <2>1 DEF Rings, Speaks, Fits, Placed, Turns, HookEvents
<1>14. CASE r = 16
  <2>1. e = "CALL_ACCEPT" /\ t = "TALKING" /\ state = "CALLING" /\ Speaks(n.link)
        /\ (Rings(n.link) <=> Rings(m.link)) /\ n.link.openChannel[endpt] = endpt
    BY <1>0, <1>1, <1>4, <1>7, <1>14, RowsAre DEF Rings, Speaks, Turned
  <2>2. QED
    BY <1>0, <2>1 DEF Rings, Speaks, Fits, Placed, Turns, HookEvents
<1>15. QED
  BY <1>2, <1>3, <1>8, <1>9, <1>10, <1>11, <1>12, <1>13, <1>14

(* The link as a step finds it does for the telephone what it did.         *)
Same(s, n) == n.sock = s.sock /\ n.beyond = s.beyond /\ n.result = s.result
              /\ n.openChannel = s.openChannel /\ n.server = s.server

LEMMA BreaksSame ==
  ASSUME NEW s \in LINK, NEW n \in Breaks(s)
  PROVE  n.good \in Nat /\ Same(s, n)
<1>1. CASE n = Whole(s)
  <2>1. n = [s EXCEPT !.good = 20]
    BY <1>1 DEF Whole, Writes
  <2>2. QED
    BY <2>1 DEF LINK, Same
<1>2. ASSUME NEW k \in BreakAt, NEW fate, n = BreaksAfter(s, k, fate)
      PROVE  n.good \in Nat /\ Same(s, n)
  <2>1. k \in Nat
    BY PhoneAssumption
  <2>2. PICK a : a = [s EXCEPT !.good = k]
    OBVIOUS
  <2>3. n = [a EXCEPT !.fate = fate]
    BY <1>2, <2>2 DEF BreaksAfter
  <2>4. QED
    BY <2>1, <2>2, <2>3 DEF LINK, Same
<1>3. QED
  BY <1>1, <1>2 DEF Breaks

LEMMA SameFits ==
  ASSUME NEW s, NEW n, Same(s, n), NEW state
  PROVE  /\ Fits(s, state) => Fits(n, state)
         /\ OwnChannel(s) => OwnChannel(n)
         /\ Failed(n) <=> Failed(s)
  BY DEF Same, Fits, OwnChannel, Failed, Rings, Speaks

LEMMA StaticFits ==
  ASSUME NEW m, GoodMachine(m), Sound(m), Steady(m.link),
         NEW state, state = m.phone.fxsState, Fits(m.link, state), NEW f, Armed(table, f),
         table \in TABLE, NEW event, NEW x, x.junk \in Seq(ARGUMENT), x.session,
         NEW a, NEW b, Placed(state, a), Turns(event.type, a, b),
         NEW n, n = RunStatic(m, event, state, x, Alone), n.link.sock = "open"
  PROVE  /\ Steady(n.link) /\ Fits(n.link, n.phone.fxsState) /\ Placed(n.phone.fxsState, b)
         /\ Grew(m.queue, n.queue)
<1>. DEFINE found == SearchFsmCtx(event.type, state)
            r == CHOOSE r \in found : TRUE
<1>0. /\ Steady(m.link) /\ Fits(m.link, state) /\ Placed(state, a) /\ Turns(event.type, a, b)
      /\ ~ m.link.beyond /\ state \in NewStates
  BY DEF Steady, GoodMachine, Good, PHONE
<1>1. n = IF found = {} \/ m.link.beyond THEN m
          ELSE FsmGo(m, FsmCtxs[r], table.rows[r], ActionData(event, state), event, x, Alone)
  BY DEF RunStatic
<1>2. CASE found = {}
  <2>1. n = m
    BY <1>1, <1>2
  <2>2. event.type \notin HookEvents
    BY <1>0, <1>2, HookHasRow DEF Turns, HookEvents
  <2>3. a = b
    BY <1>0, <2>2 DEF Turns
  <2>4. QED
    BY <1>0, <2>1, <2>3 DEF Grew
<1>3. CASE found # {}
  <2>1. r \in SearchFsmCtx(event.type, state)
    BY <1>3
  <2>. HIDE DEF r
  <2>2. ActionData(event, state) = RowWords(r)
    BY <2>1, WordsFound
  <2>3. n = FsmGo(m, FsmCtxs[r], table.rows[r], RowWords(r), event, x, Alone)
    BY <1>0, <1>1, <1>3, <2>2
  <2>4. r \in Rows \ {7}
    <3>1. r \in Rows /\ FsmCtxs[r].event = event.type
      BY <2>1, FirstRow
    <3>2. event.type # "HOOK_FLASH"
      BY <1>0 DEF Turns
    <3>3. QED
      BY <3>1, <3>2, RowsAre
  <2>5. RunsSuited(table, r) /\ KeysRun
    BY <2>4, ArmedRuns DEF KeysRun
  <2>6. Stepped(m, n, r)
    BY <2>3, <2>4, <2>5, RowSteps
  <2>7. n.phone.fxsState # "MAX"
    <3>1. GoodMachine(n)
      BY StaticKeeps
    <3>2. QED
      BY <3>1 DEF GoodMachine, Good, PHONE, NewStates
  <2>8. PICK e : e = event.type
    OBVIOUS
  <2>9. r \in SearchFsmCtx(e, state) /\ Turns(e, a, b)
    BY <1>0, <2>1, <2>8
  <2>10. QED
    BY <1>0, <2>6, <2>7, <2>9, RowFits
<1>4. QED
  BY <1>2, <1>3

(* No file that may be loaded in quiet times adds rows.                    *)
LEMMA NoDynamic ==
  ASSUME NEW f, Armed(table, f), NEW m, NEW event, NEW state, NEW x
  PROVE  RunDynamic(m, event, state, x) = m
<1>. DEFINE found == SearchDynamicFsmCtx(table, event.type, state)
            index == table.dynamic[CHOOSE d \in found : TRUE].index
            row == Row(event.type, state, "MAX", "dummy", "dummy", index)
            T == {d \in DOMAIN table.dynamic :
                    table.dynamic[d].event = event.type /\ table.dynamic[d].cur = state}
<1>1. found = FirstOf(T)
  BY DEF SearchDynamicFsmCtx
<1>2. T = {}
  BY DEF Armed
<1>. HIDE DEF T
<1>3. found = {}
  BY <1>1, <1>2 DEF FirstOf
<1>4. RunDynamic(m, event, state, x) =
        IF found = {} THEN m ELSE FsmGo(m, row, index, DynamicData, event, x, Alone)
  BY DEF RunDynamic
<1>. HIDE DEF found, index, row
<1>5. QED
  BY <1>3, <1>4

-----------------------------------------------------------------------------
(* In quiet times the unread events lead from where the handset was when   *)
(* the state was entered to where it is now, the server does for the       *)
(* telephone what fits its state, and the actions are those that go with   *)
(* the rows.                                                               *)
Matched(q, h, state, s, t, f) ==
  /\ \E a \in Hooks : Leads(q, a, h) /\ Placed(state, a)
  /\ OwnChannel(s) /\ Fits(s, state)
  /\ Armed(t, f)

(* The inductive invariant, together with IInv and Shaped.                 *)
Matching ==
  /\ ~ Failed(link)
  /\ quiet => Matched(queue, handset, phone.fxsState, link, table, file)

LEMMA SettledSame ==
  ASSUME NEW s \in LINK, NEW state
  PROVE  /\ Fits(s, state) => Fits(Settled(s), state)
         /\ OwnChannel(s) => OwnChannel(Settled(s))
         /\ ~ Failed(Settled(s))
<1>1. Settled(s).openChannel = s.openChannel /\ Settled(s).server = s.server
  BY SettledShaped
<1>2. Settled(s).result = "OK"
  <2>1. PICK a : a = [s EXCEPT !.good = 0, !.fate = "fails"]
    OBVIOUS
  <2>2. Settled(s) = [a EXCEPT !.result = "OK"]
    BY <2>1 DEF Settled
  <2>3. QED
    BY <2>1, <2>2 DEF LINK
<1>3. PICK n : n = Settled(s)
  OBVIOUS
<1>4. QED
  BY <1>1, <1>2, <1>3 DEF Fits, Rings, Speaks, OwnChannel, Failed

(* Handling an event that leaves the connection as good as it was.         *)
LEMMA HandlingMatches ==
  ASSUME IInv, Shaped, Running, link.sock = "open", ~ Failed(link), queue # << >>,
         Matched(queue, handset, phone.fxsState, link, table, file),
         NEW s \in Breaks(link), NEW x, x.junk \in Seq(ARGUMENT), x.session,
         NEW n, n = ProcessEvent(s, Head(queue), x, Alone), n.link.sock = "open"
  PROVE  Matched(n.queue, handset, n.phone.fxsState, n.link, table, file)
<1>. DEFINE m == [phone |-> phone, queue |-> Tail(queue), link |-> s, typed |-> typed,
                  called |-> called, ok |-> TRUE]
            event == Head(queue)
            state == phone.fxsState
<1>1. /\ queue \in Seq(EVENT) /\ link \in LINK /\ table \in TABLE /\ handset \in Hooks
      /\ phone.timer \in BOOLEAN
  BY DEF Shaped, Hooks, IInv, Good, PHONE
<1>2. Armed(table, file) /\ OwnChannel(link) /\ Fits(link, state) /\ ~ link.beyond
  BY DEF Matched, Running
<1>3. n = RunStatic(m, event, state, x, Alone)
  BY <1>2, NoDynamic, Uninterrupted DEF ProcessEvent
<1>4. PICK a \in Hooks : Leads(queue, a, handset) /\ Placed(state, a)
  BY DEF Matched
<1>5. PICK b \in Hooks : Turns(event.type, a, b) /\ Leads(Tail(queue), b, handset)
  BY <1>1, <1>4, TailLeads
<1>6. GoodMachine(m) /\ m.phone = phone /\ m.queue = Tail(queue) /\ m.link = s
  BY DEF IInv, GoodMachine, IsMachine
<1>7. s \in LINK /\ s.good \in Nat /\ Same(link, s)
  BY <1>1, BreaksShaped, BreaksSame
<1>8. Tail(queue) \in Seq(EVENT)
  BY <1>1
<1>. HIDE DEF m, event
<1>9. Sound(m)
  BY <1>1, <1>6, <1>7, <1>8 DEF Sound
<1>10. Steady(s) /\ Fits(s, state)
  <2>1. OwnChannel(s) /\ Fits(s, state) /\ ~ Failed(s)
    BY <1>2, <1>7, SameFits
  <2>2. QED
    BY <1>2, <1>7, <2>1 DEF Steady, Same
<1>11. /\ Steady(m.link) /\ Fits(m.link, state) /\ state = m.phone.fxsState
  BY <1>6, <1>10
<1>12. /\ Steady(n.link) /\ Fits(n.link, n.phone.fxsState) /\ Placed(n.phone.fxsState, b)
       /\ Grew(m.queue, n.queue)
  BY <1>1, <1>2, <1>3, <1>4, <1>5, <1>6, <1>9, <1>11, StaticFits
<1>13. Leads(n.queue, b, handset)
  BY <1>1, <1>5, <1>6, <1>8, <1>12, GrewLeads
<1>14. QED
  BY <1>2, <1>12, <1>13 DEF Matched, Steady

LEMMA ProcessMatches ==
  ASSUME IInv, Shaped, Matching, Process
  PROVE  Matching'
<1>1. PICK x \in Outcomes(Head(queue)), s \in Breaks(link), by \in {Alone} \union Interruptions :
        /\ queue # << >> /\ Running
        /\ phone' = ProcessEvent(s, Head(queue), x, by).phone
        /\ queue' = ProcessEvent(s, Head(queue), x, by).queue
        /\ link' = Settled(ProcessEvent(s, Head(queue), x, by).link)
        /\ quiet' = (/\ quiet /\ x.session /\ by = Alone /\ link.sock = "open"
                     /\ ProcessEvent(s, Head(queue), x, by).link.sock = "open")
        /\ UNCHANGED <<handset, dtmfDigitMap, table, file>>
  BY DEF Process
<1>b. Behaves(by)
  BY CommandsBehave DEF Behaves, Shaped
<1>2. x.junk \in Seq(ARGUMENT)
  BY ChoicesShaped
<1>3. s \in LINK
  BY BreaksShaped DEF Shaped
<1>4. PICK n : n = ProcessEvent(s, Head(queue), x, by)
  OBVIOUS
<1>5. n.link \in LINK
  BY <1>1, <1>2, <1>3, <1>4, <1>b, ProcessShapes DEF Sound
<1>6. link' = Settled(n.link) /\ phone' = n.phone /\ queue' = n.queue
  BY <1>1, <1>4
<1>7. ASSUME quiet'
      PROVE  Matched(queue, handset, phone.fxsState, link, table, file)'
  <2>1. quiet /\ x.session /\ by = Alone /\ link.sock = "open" /\ n.link.sock = "open"
    BY <1>1, <1>4, <1>7
  <2>2. Matched(n.queue, handset, n.phone.fxsState, n.link, table, file)
    BY <1>1, <1>2, <1>4, <2>1, HandlingMatches DEF Matching
  <2>3. Matched(n.queue, handset, n.phone.fxsState, Settled(n.link), table, file)
    BY <1>5, <2>2, SettledSame DEF Matched
  <2>4. handset' = handset /\ table' = table /\ file' = file
    BY <1>1
  <2>5. QED
    BY <1>6, <2>3, <2>4
<1>8. ~ Failed(link')
  BY <1>5, <1>6, SettledSame
<1>9. QED
  BY <1>7, <1>8 DEF Matching

-----------------------------------------------------------------------------
(* Setting the server up leaves open what was open.                        *)
Keeping(s) == {u \in LINK : u.openChannel = s.openChannel}

LEMMA MsgKeeps ==
  ASSUME NEW s, NEW u \in Keeping(s), NEW cmd, NEW id \in Int
  PROVE  SendMsgToServer(u, cmd, id) \in Keeping(s)
<1>1. PICK n : n = SendMsgToServer(u, cmd, id)
  OBVIOUS
<1>2. n \in LINK
  BY <1>1, MsgSent DEF Keeping
<1>3. n.openChannel = u.openChannel
  <2>1. CASE u.sock = "open" /\ u.good > 0
    BY <1>1, <2>1 DEF SendMsgToServer, Keeping, LINK
  <2>2. CASE u.sock = "open" /\ u.good = 0 /\ u.fate = "vanishes"
    BY <1>1, <2>2 DEF SendMsgToServer, Keeping, LINK
  <2>3. CASE u.sock = "open" /\ u.good = 0 /\ u.fate = "fails"
    BY <1>1, <2>3 DEF SendMsgToServer, Keeping, LINK
  <2>4. CASE ~ (u.sock = "open" /\ u.good > 0) /\ ~ (u.sock = "open" /\ u.good = 0)
    BY <1>1, <2>4 DEF SendMsgToServer, Keeping, LINK, Return
  <2>5. u.fate \in {"vanishes", "fails"}
    BY DEF Keeping, LINK
  <2>6. QED
    BY <2>1, <2>2, <2>3, <2>4, <2>5
<1>4. QED
  BY <1>1, <1>2, <1>3 DEF Keeping

LEMMA ReturnKeeps ==
  ASSUME NEW s, NEW u \in Keeping(s), NEW result \in {"OK", "FAILED", "INVAIL_ARG"}
  PROVE  Return(u, result) \in Keeping(s)
<1>1. Return(u, result) \in LINK
  BY Returns DEF Keeping
<1>2. QED
  BY <1>1 DEF Return, Keeping, LINK

LEMMA RegionKeeps ==
  ASSUME NEW s, NEW u \in Keeping(s), NEW words
  PROVE  /\ cli_sendSlicLocaleHandler(u, words) \in Keeping(s)
         /\ cli_sendDspDefaultHandler(u, words) \in Keeping(s)
         /\ cli_sendDspStartHandler(u, words) \in Keeping(s)
<1>1. ASSUME NEW region, NEW cmd
      PROVE  SendLocaleInternal(u, region, cmd) \in Keeping(s)
  BY MsgKeeps, ReturnKeeps DEF SendLocaleInternal
<1>2. PICK v : v = [u EXCEPT !.dspStart = TRUE]
  OBVIOUS
<1>3. v \in Keeping(s)
  <2>1. u \in LINK /\ u.openChannel = s.openChannel
    BY DEF Keeping
  <2>2. v \in LINK
    BY <1>2, <2>1, LinkUpdates
  <2>3. v.openChannel = u.openChannel
    BY <1>2, <2>1 DEF LINK
  <2>4. QED
    BY <2>1, <2>2, <2>3 DEF Keeping
<1>4. vt_sendDspStart(u) \in Keeping(s)
  BY <1>2, <1>3, MsgKeeps, ReturnKeeps DEF vt_sendDspStart
<1>5. QED
  BY <1>1, <1>4, ReturnKeeps DEF cli_sendSlicLocaleHandler, cli_sendDspDefaultHandler,
                                 cli_sendDspStartHandler

LEMMA DefaultsKeep ==
  ASSUME NEW z, NEW s \in Keeping(z)
  PROVE  SendAllChannelDefault(s) \in Keeping(z)
<1>. DEFINE channels == <<0, 1, 2, 3>>
            n == 4
            U == Keeping(z)
            g == [p \in U \X (1 .. n) |-> AfterDefault(p[1], channels[p[2]])]
<1>1. n \in Nat /\ DOMAIN channels = 1 .. n /\ \A i \in 1 .. n : channels[i] \in Int
  OBVIOUS
<1>. HIDE DEF channels, n
<1>2. \A u \in U, i \in 1 .. n : AfterDefault(u, channels[i]) \in U
  BY <1>1, MsgKeeps DEF AfterDefault, vt_sendChannelDefault
<1>3. s \in U
  OBVIOUS
<1>. HIDE DEF U
<1>4. g \in [U \X (1 .. n) -> U]
  BY <1>2
<1>5. \A u \in U, i \in 1 .. n : g[<<u, i>>] = AfterDefault(u, channels[i])
  OBVIOUS
<1>. HIDE DEF g
<1>6. PICK d : Iterates(d, U, s, n, g)
  BY <1>1, <1>3, <1>4, Iteration
<1>7. DefaultFold(d, s)
  <2>1. ASSUME NEW T \in SUBSET (1 .. n), T # {}
        PROVE  d[T] = AfterDefault(d[T \ {Max(T)}], channels[Max(T)])
    <3>1. Max(T) \in 1 .. n /\ d[T \ {Max(T)}] \in U
      <4>1. Max(T) \in T
        BY <1>1, <2>1, GreatestIn
      <4>2. T \ {Max(T)} \in SUBSET (1 .. n)
        OBVIOUS
      <4>3. QED
        BY <1>6, <4>1, <4>2 DEF Iterates
    <3>2. QED
      BY <1>5, <1>6, <2>1, <3>1 DEF Iterates
  <2>2. d = [T \in SUBSET (1 .. n) |-> d[T]] /\ d[{}] = s
    BY <1>6 DEF Iterates
  <2>3. d = [T \in SUBSET (1 .. n) |->
               IF T = {} THEN s ELSE AfterDefault(d[T \ {Max(T)}], channels[Max(T)])]
    BY <2>1, <2>2
  <2>4. QED
    BY <1>1, <2>3, Zenon DEF DefaultFold, channels
<1>8. PICK c : DefaultFold(c, s) /\ SendAllChannelDefault(s) = c[1 .. n]
  BY <1>1, <1>7, DefaultsAreFold, Zenon DEF channels
<1>9. Folds(c, U, s, n, g)
  <2>1. c = [T \in SUBSET (1 .. n) |->
               IF T = {} THEN s ELSE AfterDefault(c[T \ {Max(T)}], channels[Max(T)])]
    BY <1>1, <1>8, Zenon DEF DefaultFold, channels
  <2>2. \A T \in SUBSET (1 .. n) :
          c[T] = IF T = {} THEN s ELSE AfterDefault(c[T \ {Max(T)}], channels[Max(T)])
    BY <2>1, Zenon
  <2>3. {} \in SUBSET (1 .. n)
    OBVIOUS
  <2>4. \A T \in SUBSET (1 .. n) : T # {} => Max(T) \in 1 .. n
    BY <1>1, GreatestIn
  <2>5. QED
    BY <1>5, <2>2, <2>3, <2>4 DEF Folds
<1>10. PICK f : Walks(f, U, s, n, g, c[1 .. n])
  BY <1>1, <1>3, <1>4, <1>9, FoldWalk
<1>11. f[n] \in U
  BY <1>1, <1>10 DEF Walks
<1>12. QED
  BY <1>8, <1>10, <1>11 DEF Walks, U

LEMMA InitServerKeeps ==
  ASSUME NEW s \in LINK, NEW words
  PROVE  InitServerAction(s, words).openChannel = s.openChannel
<1>. DEFINE given == IF words = << >> THEN << >> ELSE Blank
            a == cli_sendSlicLocaleHandler(s, given)
            b == cli_sendDspDefaultHandler(a, given)
            c == cli_sendDspStartHandler(b, given)
<1>1. InitServerAction(s, words) = SendAllChannelDefault(c)
  BY DEF InitServerAction
<1>. HIDE DEF given
<1>2. s \in Keeping(s)
  BY DEF Keeping
<1>3. a \in Keeping(s)
  BY <1>2, RegionKeeps
<1>. HIDE DEF a
<1>4. b \in Keeping(s)
  BY <1>3, RegionKeeps
<1>. HIDE DEF b
<1>5. c \in Keeping(s)
  BY <1>4, RegionKeeps
<1>. HIDE DEF c
<1>6. InitServerAction(s, words) \in Keeping(s)
  BY <1>1, <1>5, DefaultsKeep
<1>7. QED
  BY <1>6 DEF Keeping

-----------------------------------------------------------------------------
(* What the operator does in quiet times changes nothing that matters.     *)
Undisturbed(after) ==
  quiet' => /\ quiet /\ queue' = queue /\ Armed(table', file')
            /\ after.server = link.server /\ after.openChannel = link.openChannel

LEMMA CommandMatches ==
  ASSUME Matching, NEW after \in LINK, CommandDone(after), Undisturbed(after)
  PROVE  Matching'
<1>1. link' = Settled(after) /\ handset' = handset /\ phone' = phone
  BY DEF CommandDone
<1>2. ~ Failed(link')
  BY <1>1, SettledSame
<1>3. ASSUME quiet'
      PROVE  Matched(queue, handset, phone.fxsState, link, table, file)'
  <2>1. /\ Matched(queue, handset, phone.fxsState, link, table, file)
        /\ queue' = queue /\ Armed(table', file')
        /\ after.server = link.server /\ after.openChannel = link.openChannel
    BY <1>3 DEF Undisturbed, Matching
  <2>2. OwnChannel(after) /\ Fits(after, phone.fxsState)
    BY <2>1 DEF Matched, OwnChannel, Fits, Rings, Speaks
  <2>3. OwnChannel(link') /\ Fits(link', phone.fxsState)
    BY <1>1, <2>2, SettledSame
  <2>4. QED
    BY <1>1, <2>1, <2>3 DEF Matched
<1>4. QED
  BY <1>2, <1>3 DEF Matching

LEMMA StillArmed ==
  ASSUME Matching, UNCHANGED <<table, file>>
  PROVE  quiet => Armed(table', file')
  BY DEF Matching, Matched

LEMMA ConnectionsSame ==
  ASSUME NEW s \in LINK, NEW new, NEW sock
  PROVE  /\ [s EXCEPT !.sock = "open", !.server = new].openChannel = s.openChannel
         /\ [s EXCEPT !.sock = "open", !.server = new].server = new
         /\ [s EXCEPT !.sock = "none"].openChannel = s.openChannel
         /\ [s EXCEPT !.sock = "none"].server = s.server
  BY DEF LINK

LEMMA ConnectMatches ==
  ASSUME IInv, Shaped, Matching, Connect
  PROVE  Matching'
<1>1. PICK s \in Connected(link) : CommandDone(s)
  BY DEF Connect
<1>2. s \in LINK
  BY ConnectionsShaped DEF Shaped
<1>3. s.openChannel = link.openChannel
  <2>1. PICK new : s = [link EXCEPT !.sock = "open", !.server = new]
    BY Zenon DEF Connected
  <2>2. QED
    BY <2>1, ConnectionsSame DEF Shaped
<1>4. link'.server = s.server
  BY <1>1, <1>2, SettledShaped DEF CommandDone
<1>5. Undisturbed(s)
  <2>1. ASSUME quiet'
        PROVE  quiet /\ link'.server = link.server /\ queue' = queue
    BY <2>1 DEF Connect
  <2>2. quiet => Armed(table', file')
    BY StillArmed DEF Connect
  <2>3. QED
    BY <1>3, <1>4, <2>1, <2>2 DEF Undisturbed
<1>6. QED
  BY <1>1, <1>2, <1>5, CommandMatches

LEMMA InitServerMatches ==
  ASSUME IInv, Shaped, Matching, InitServer
  PROVE  Matching'
<1>1. PICK c \in Typed, s \in Connected(link) :
        \E t \in Breaks(s) : CommandDone(InitServerAction(t, Rest(c.words)))
  BY DEF InitServer
<1>2. PICK t \in Breaks(s) : CommandDone(InitServerAction(t, Rest(c.words)))
  BY <1>1
<1>3. PICK after : after = InitServerAction(t, Rest(c.words))
  OBVIOUS
<1>4. s \in LINK /\ t \in LINK
  BY ConnectionsShaped, BreaksShaped DEF Shaped
<1>5. after \in LINK
  BY <1>3, <1>4, ServerInitialised
<1>6. after.openChannel = link.openChannel
  <2>1. PICK new : s = [link EXCEPT !.sock = "open", !.server = new]
    BY Zenon DEF Connected
  <2>2. s.openChannel = link.openChannel
    BY <2>1, ConnectionsSame DEF Shaped
  <2>3. t.openChannel = s.openChannel
    BY <1>4, BreaksSame DEF Same
  <2>4. after.openChannel = t.openChannel
    BY <1>3, <1>4, InitServerKeeps
  <2>5. QED
    BY <2>2, <2>3, <2>4
<1>7. CommandDone(after)
  BY <1>2, <1>3
<1>8. link'.server = after.server
  BY <1>5, <1>7, SettledShaped DEF CommandDone
<1>9. Undisturbed(after)
  <2>1. ASSUME quiet'
        PROVE  quiet /\ link'.server = link.server /\ queue' = queue
    BY <2>1 DEF InitServer
  <2>2. quiet => Armed(table', file')
    BY StillArmed DEF InitServer
  <2>3. QED
    BY <1>6, <1>8, <2>1, <2>2 DEF Undisturbed
<1>10. QED
  BY <1>5, <1>7, <1>9, CommandMatches

LEMMA ReactionMatches ==
  ASSUME IInv, Shaped, Matching, Reaction
  PROVE  Matching'
<1>1. PICK c \in Typed :
        /\ c.cmd = <<"reaction">>
        /\ table' = LoadAction(table, Files[NamedFile(c.words)])
        /\ file' = NamedFile(c.words)
        /\ quiet' = (quiet /\ (\/ NamedFile(c.words) = "vc_action"
                               \/ NamedFile(c.words) = file /\ NamedFile(c.words) = "missing"))
  BY Zenon DEF Reaction
<1>2. PICK g : g = NamedFile(c.words)
  OBVIOUS
<1>3. link \in LINK /\ CommandDone(link) /\ queue' = queue /\ table \in TABLE
  BY DEF Reaction, Shaped
<1>4. ASSUME quiet'
      PROVE  quiet /\ Armed(table', file')
  <2>1. quiet /\ (g = "vc_action" \/ (g = file /\ g = "missing"))
    BY <1>1, <1>2, <1>4
  <2>2. Armed(table, file)
    BY <2>1 DEF Matching, Matched
  <2>3. Armed(LoadAction(table, Files[g]), g)
    BY <1>3, <2>1, <2>2, LoadArms
  <2>4. QED
    BY <1>1, <1>2, <2>1, <2>3
<1>5. Undisturbed(link)
  BY <1>3, <1>4 DEF Undisturbed
<1>6. QED
  BY <1>3, <1>5, CommandMatches

LEMMA OperatorMatches ==
  ASSUME IInv, Shaped, Matching, Operator
  PROVE  Matching'
<1>1. link \in LINK
  BY DEF Shaped
<1>2. ASSUME UNCHANGED <<table, file>>, quiet' => quiet /\ queue' = queue
      PROVE  Undisturbed(link)
  BY <1>2, StillArmed DEF Undisturbed
<1>3. CASE SendByHand
  <2>1. PICK c \in Typed, s \in Breaks(link) :
          Len(c.cmd) = 2 /\ c.cmd[1] = "send" /\ CommandDone(SendCommand(s, c.cmd[2], c.words))
    BY <1>3 DEF SendByHand
  <2>2. SendCommand(s, c.cmd[2], c.words) \in LINK
    BY <1>1, <2>1, BreaksShaped, TypedShaped, CommandSent
  <2>3. Undisturbed(SendCommand(s, c.cmd[2], c.words))
    BY <1>3 DEF SendByHand, Undisturbed
  <2>4. QED
    BY <2>1, <2>2, <2>3, CommandMatches
<1>4. CASE ActionByHand
  <2>1. PICK c \in Typed : \E s \in Breaks(link), junk \in IF Rest(c.words) = << >> THEN Junk ELSE {<< >>} :
          CommandDone(RunAction(table, vt_getActionIdxByStr(table, FirstText(c.words)),
                                s, Rest(c.words), junk))
    BY <1>4 DEF ActionByHand
  <2>2. PICK s \in Breaks(link), junk \in IF Rest(c.words) = << >> THEN Junk ELSE {<< >>} :
          CommandDone(RunAction(table, vt_getActionIdxByStr(table, FirstText(c.words)),
                                s, Rest(c.words), junk))
    BY <2>1
  <2>3. PICK index, n : /\ index = vt_getActionIdxByStr(table, FirstText(c.words))
                        /\ n = RunAction(table, index, s, Rest(c.words), junk)
    OBVIOUS
  <2>4. n \in LINK
    <3>1. index \in Nat
      BY <2>3, NamesFound DEF Shaped
    <3>2. junk \in Seq(ARGUMENT)
      BY JunkIsWords
    <3>3. QED
      BY <1>1, <2>3, <3>1, <3>2, BreaksShaped, TypedShaped, ActionRuns DEF Shaped
  <2>5. CommandDone(n) /\ Undisturbed(n)
    BY <1>4, <2>2, <2>3 DEF ActionByHand, Undisturbed
  <2>6. QED
    BY <2>4, <2>5, CommandMatches
<1>5. CASE Connect
  BY <1>5, ConnectMatches
<1>6. CASE ConnectFails
  <2>1. PICK s \in {link, ConnectFailed(link)} : CommandDone(s)
    BY <1>6, Zenon DEF ConnectFails
  <2>2. s \in LINK /\ s.server = link.server /\ s.openChannel = link.openChannel
    BY <1>1, <2>1, ConnectionsShaped, ConnectionsSame DEF ConnectFailed
  <2>3. UNCHANGED <<queue, table, file, quiet>>
    BY <1>6 DEF ConnectFails
  <2>4. Undisturbed(s)
    BY <2>2, <2>3, StillArmed DEF Undisturbed
  <2>5. QED
    BY <2>1, <2>2, <2>4, CommandMatches
<1>7. CASE InitServer
  BY <1>7, InitServerMatches
<1>8. CASE Shutdown
  <2>1. PICK s : s = [link EXCEPT !.sock = "none"]
    OBVIOUS
  <2>2. s \in LINK /\ s.server = link.server /\ s.openChannel = link.openChannel
    BY <1>1, <2>1, ConnectionsShaped, ConnectionsSame
  <2>3. CommandDone(s) /\ UNCHANGED <<queue, table, file, quiet>>
    BY <1>8, <2>1 DEF Shutdown
  <2>4. Undisturbed(s)
    BY <2>2, <2>3, StillArmed DEF Undisturbed
  <2>5. QED
    BY <2>2, <2>3, <2>4, CommandMatches
<1>9. CASE Reaction
  BY <1>9, ReactionMatches
<1>10. CASE Reload
  <2>1. CommandDone(link) /\ UNCHANGED <<queue, table, file, quiet>>
    BY <1>10 DEF Reload
  <2>2. Undisturbed(link)
    BY <1>2, <2>1
  <2>3. QED
    BY <1>1, <2>1, <2>2, CommandMatches
<1>11. CASE DropEvents
  <2>1. CommandDone(link) /\ UNCHANGED <<table, file>> /\ queue' = << >>
        /\ quiet' = (quiet /\ queue = << >>)
    BY <1>11 DEF DropEvents
  <2>2. quiet' => quiet /\ queue' = queue
    BY <2>1
  <2>3. Undisturbed(link)
    BY <1>2, <2>1, <2>2
  <2>4. QED
    BY <1>1, <2>1, <2>3, CommandMatches
<1>12. QED
  BY <1>3, <1>4, <1>5, <1>6, <1>7, <1>8, <1>9, <1>10, <1>11 DEF Operator

(* What comes in from outside.                                             *)
LEMMA EventsLead ==
  ASSUME NEW q \in Seq(EVENT), NEW a, NEW h, Leads(q, a, h), NEW e \in EVENT, NEW k \in Hooks,
         Turns(e.type, h, k)
  PROVE  q \o <<e>> \in Seq(EVENT) /\ Leads(q \o <<e>>, a, k)
<1>1. q \o <<e>> = Append(q, e)
  OBVIOUS
<1>2. Append(q, e) \in Seq(EVENT)
  OBVIOUS
<1>3. Leads(Append(q, e), a, k)
  BY AppendLeads
<1>4. QED
  BY <1>1, <1>2, <1>3

LEMMA PairLeads ==
  ASSUME NEW q \in Seq(EVENT), NEW a, NEW h \in Hooks, Leads(q, a, h), NEW d \in EVENT,
         NEW e \in EVENT, Turns(d.type, h, h), Turns(e.type, h, h)
  PROVE  Leads(q \o <<d, e>>, a, h)
<1>1. q \o <<d, e>> = Append(Append(q, d), e)
  OBVIOUS
<1>2. Append(q, d) \in Seq(EVENT)
  OBVIOUS
<1>3. Leads(Append(q, d), a, h)
  BY AppendLeads
<1>4. QED
  BY <1>1, <1>2, <1>3, AppendLeads

(* What the user does, reported, leads on to where the handset is then.    *)
Follows(events) ==
  \A a : Leads(queue, a, handset) => Leads(queue \o events, a, handset')

LEMMA ReportMatches ==
  ASSUME Shaped, Matching, NEW events, Report(events),
         Event("HOOK_FLASH") \in ToSet(events) \/ Follows(events)
  PROVE  Matching'
<1>1. UNCHANGED <<phone, link, table, file>>
  BY DEF Report
<1>2. ASSUME quiet'
      PROVE  Matched(queue, handset, phone.fxsState, link, table, file)'
  <2>1. /\ quiet /\ link.sock = "open" /\ Event("HOOK_FLASH") \notin ToSet(events)
        /\ queue' = queue \o events
    BY <1>2 DEF Report
  <2>2. Matched(queue, handset, phone.fxsState, link, table, file) /\ Follows(events)
    BY <2>1 DEF Matching
  <2>3. QED
    BY <1>1, <2>1, <2>2 DEF Matched, Follows
<1>3. QED
  BY <1>1, <1>2 DEF Matching

LEMMA UserMatches ==
  ASSUME IInv, Shaped, Matching, User
  PROVE  Matching'
<1>1. queue \in Seq(EVENT) /\ handset \in Hooks
  BY DEF Shaped, Hooks
<1>2. /\ Event("HOOK_OFF") \in EVENT /\ Event("HOOK_ON") \in EVENT /\ Event("DTMF_START") \in EVENT
      /\ Event("HOOK_OFF").type = "HOOK_OFF" /\ Event("HOOK_ON").type = "HOOK_ON"
      /\ Event("DTMF_START").type = "DTMF_START"
  BY DEF Event, EVENT, Events, Places
<1>3. CASE LiftHandset
  <2>1. handset = "on" /\ handset' = "off" /\ Report(<<Event("HOOK_OFF")>>)
    BY <1>3 DEF LiftHandset
  <2>2. PICK e : e = Event("HOOK_OFF")
    OBVIOUS
  <2>3. e \in EVENT /\ Turns(e.type, handset, handset') /\ handset' \in Hooks
    BY <1>2, <2>1, <2>2 DEF Turns, HookEvents, Hooks
  <2>4. Follows(<<e>>)
    BY <1>1, <2>3, EventsLead DEF Follows
  <2>5. QED
    BY <2>1, <2>2, <2>4, ReportMatches
<1>4. CASE HangUp
  <2>1. handset = "off" /\ handset' = "on" /\ Report(<<Event("HOOK_ON")>>)
    BY <1>4 DEF HangUp
  <2>2. PICK e : e = Event("HOOK_ON")
    OBVIOUS
  <2>3. e \in EVENT /\ Turns(e.type, handset, handset') /\ handset' \in Hooks
    BY <1>2, <2>1, <2>2 DEF Turns, HookEvents, Hooks
  <2>4. Follows(<<e>>)
    BY <1>1, <2>3, EventsLead DEF Follows
  <2>5. QED
    BY <2>1, <2>2, <2>4, ReportMatches
<1>5. CASE FlashHook
  <2>1. Report(<<Event("HOOK_FLASH")>>)
    BY <1>5 DEF FlashHook, OffTheHook
  <2>2. PICK e : e = Event("HOOK_FLASH")
    OBVIOUS
  <2>3. e \in ToSet(<<e>>)
    BY DEF ToSet
  <2>4. QED
    BY <2>1, <2>2, <2>3, ReportMatches
<1>6. CASE \E key \in Keys : PressKey(key)
  <2>1. PICK key \in Keys : PressKey(key)
    BY <1>6
  <2>2. PICK d, e : d = Event("DTMF_START") /\ e = DtmfEnd(ConvertDtmfDigit(key))
    OBVIOUS
  <2>3. Report(<<d, e>>) /\ handset' = handset
    BY <2>1, <2>2 DEF PressKey, OffTheHook
  <2>4. e \in EVENT /\ e.type = "DTMF_END"
    <3>1. dtmfDigitMap[key] \in DtmfDigits \union {"none"}
      BY DEF Shaped
    <3>2. QED
      BY <2>2, <3>1 DEF DtmfEnd, ConvertDtmfDigit, EVENT, Places, Events
  <2>5. d \in EVENT /\ Turns(d.type, handset, handset) /\ Turns(e.type, handset, handset)
    BY <1>2, <2>2, <2>4 DEF Turns, HookEvents
  <2>6. Follows(<<d, e>>)
    BY <1>1, <2>3, <2>4, <2>5, PairLeads DEF Follows
  <2>7. QED
    BY <2>3, <2>6, ReportMatches
<1>7. QED
  BY <1>3, <1>4, <1>5, <1>6 DEF User

LEMMA PutMatches ==
  ASSUME Shaped, Matching, NEW e, e.type \notin HookEvents, queue' = Append(queue, e),
         UNCHANGED <<handset, link, table, file, quiet>>, phone'.fxsState = phone.fxsState
  PROVE  Matching'
<1>1. ASSUME quiet'
      PROVE  Matched(queue, handset, phone.fxsState, link, table, file)'
  <2>1. Matched(queue, handset, phone.fxsState, link, table, file)
    BY <1>1 DEF Matching
  <2>2. PICK a \in Hooks : Leads(queue, a, handset) /\ Placed(phone.fxsState, a)
    BY <2>1 DEF Matched
  <2>3. handset \in Hooks /\ queue \in Seq(EVENT) /\ Turns(e.type, handset, handset)
    BY DEF Shaped, Hooks, Turns, HookEvents
  <2>4. Leads(Append(queue, e), a, handset)
    BY <2>2, <2>3, AppendLeads
  <2>5. QED
    BY <2>1, <2>2, <2>4 DEF Matched
<1>2. QED
  BY <1>1 DEF Matching

LEMMA FarEndMatches ==
  ASSUME Shaped, Matching, NEW type \in CallEvents, FarEnd(type)
  PROVE  Matching'
<1>1. PICK e : e = Event(type)
  OBVIOUS
<1>2. e.type \notin HookEvents
  BY <1>1, PhoneAssumption DEF Event, HookEvents
<1>3. /\ queue' = Append(queue, e) /\ UNCHANGED <<handset, link, table, file, quiet>>
      /\ phone'.fxsState = phone.fxsState
  BY <1>1 DEF FarEnd
<1>4. QED
  BY <1>2, <1>3, PutMatches

LEMMA TimeoutMatches ==
  ASSUME IInv, Shaped, Matching, DigitTimeout
  PROVE  Matching'
<1>1. PICK type \in {"NUM_DONE", "NUM_ERR"} : queue' = Append(queue, Event(type))
  BY DEF DigitTimeout
<1>2. PICK e : e = Event(type)
  OBVIOUS
<1>3. e.type \notin HookEvents
  BY <1>2 DEF Event, HookEvents
<1>4. phone'.fxsState = phone.fxsState
  BY DEF DigitTimeout, IInv, Good, PHONE
<1>5. UNCHANGED <<handset, link, table, file, quiet>> /\ queue' = Append(queue, e)
  BY <1>1, <1>2 DEF DigitTimeout
<1>6. QED
  BY <1>3, <1>4, <1>5, PutMatches

LEMMA InitMatches == Init => Matching
<1>. SUFFICES ASSUME Init PROVE Matching
  OBVIOUS
<1>1. link = [InitialLink EXCEPT !.sock = "open"]
  BY DEF Init
<1>2. /\ link.result = "OK" /\ link.openChannel = [e \in Endpts |-> -1]
      /\ link.server = FreshServer
  BY <1>1 DEF InitialLink
<1>3. /\ ~ Failed(link) /\ ~ Rings(link) /\ ~ Speaks(link) /\ OwnChannel(link)
  BY <1>2, OwnEndpt DEF Failed, Rings, Speaks, OwnChannel, FreshServer
<1>4. handset = "on" /\ queue = << >> /\ phone.fxsState = "HOOK_ON"
  BY DEF Init
<1>5. Fits(link, phone.fxsState) /\ Placed(phone.fxsState, "on") /\ "on" \in Hooks
  BY <1>3, <1>4 DEF Fits, Placed, Hooks
<1>6. Leads(queue, "on", handset)
  BY <1>4, <1>5, NoneLead
<1>7. Armed(table, file)
  BY LoadArms DEF Init
<1>8. QED
  BY <1>3, <1>5, <1>6, <1>7 DEF Matching, Matched

LEMMA NextMatches == IInv /\ Shaped /\ Matching /\ [Next]_vars => Matching'
<1>. SUFFICES ASSUME IInv, Shaped, Matching, [Next]_vars PROVE Matching'
  OBVIOUS
<1>1. CASE User
  BY <1>1, UserMatches
<1>2. CASE \E type \in CallEvents : FarEnd(type)
  BY <1>2, FarEndMatches
<1>3. CASE Process
  BY <1>3, ProcessMatches
<1>4. CASE DigitTimeout
  BY <1>4, TimeoutMatches
<1>5. CASE Operator
  BY <1>5, OperatorMatches
<1>6. CASE UNCHANGED vars
  BY <1>6 DEF vars, Matching, Matched
<1>7. QED
  BY <1>1, <1>2, <1>3, <1>4, <1>5, <1>6 DEF Next

LEMMA MatchingIsEnough == IInv /\ Matching => ServerMatchesState
<1>. SUFFICES ASSUME IInv, Matching, quiet
     PROVE  /\ endpt \in link.server.ring <=> phone.fxsState = "BE_CALLED"
            /\ link.openChannel[endpt] \in link.server.rtp <=> phone.fxsState = "TALKING"
  BY DEF ServerMatchesState
<1>1. OwnChannel(link) /\ Fits(link, phone.fxsState)
  BY DEF Matching, Matched
<1>2. /\ link.openChannel[endpt] \in {-1, endpt} /\ -1 \notin link.server.rtp
      /\ endpt \in link.server.ring <=> phone.fxsState = "BE_CALLED"
      /\ endpt \in link.server.rtp <=> phone.fxsState = "TALKING"
      /\ phone.fxsState = "TALKING" => link.openChannel[endpt] = endpt
  BY <1>1 DEF OwnChannel, Fits, Rings, Speaks
<1>3. QED
  BY <1>2

(* In quiet times the telephone rings exactly while it is called, and      *)
(* voice is sent on its channel exactly while it talks: for every length   *)
(* of the queue, every order of hook, digits and calls, and whatever the   *)
(* operator loads again or connects meanwhile.                             *)
THEOREM ServerMatches == Spec => []ServerMatchesState
<1>1. Spec => []IInv
  BY Invariance
<1>2. Spec => []Shaped
  BY ShapesKept
<1>3. Spec => []Matching
  BY <1>1, <1>2, InitMatches, NextMatches, PTL DEF Spec
<1>4. QED
  BY <1>1, <1>3, MatchingIsEnough, PTL
=============================================================================
