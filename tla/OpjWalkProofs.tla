--------------------------- MODULE OpjWalkProofs ---------------------------
(***************************************************************************)
(* Theorems about OpjWalk, for files of any length and content: the ranges *)
(* a walk notes lie within the bytes it has read and never straddle.       *)
(***************************************************************************)
EXTENDS OpjWalk, TLAPS, SequenceTheorems, WellFoundedInduction

(***************************************************************************)
(* The invariant the theorems rest on.  A record is noted when its call is *)
(* done, so the calls in progress have to be in order too: the inner ones  *)
(* begin behind the outer ones, nothing noted straddles the beginning of a *)
(* call, and a call that waits for another has read something before.      *)
(***************************************************************************)
InOrder ==
    \A i \in 1 .. Len(stack) :
        /\ stack[i].start <= cursor
        /\ stack[i].step > 1 => stack[i].start < cursor
        /\ \A j \in 1 .. Len(stack) : i < j => stack[j].start <= stack[i].start

NoneStraddles ==
    \A i \in 1 .. Len(stack) : \A e \in Noted :
        e.end <= stack[i].start \/ stack[i].start <= e.start

IsWaiting(frame) ==
    /\ frame.step > 1
    /\ Instruction(frame) \in {"leaves", "folders"} => frame.n > 0

CallersWait == \A i \in 2 .. Len(stack) : IsWaiting(stack[i])

WalkInv == TypeInv /\ Placed /\ Nested /\ InOrder /\ NoneStraddles /\ CallersWait

----------------------------------------------------------------------------
(* The stack. *)

\* The innermost call is replaced.
LEMMA TopReplaced ==
    ASSUME NEW S, NEW s \in Seq(S), s # <<>>, NEW f \in S, NEW t, t = <<f>> \o Tail(s)
    PROVE  /\ t \in Seq(S) /\ Len(t) = Len(s) /\ Len(s) >= 1
           /\ t[1] = f
           /\ \A i \in 2 .. Len(s) : t[i] = s[i]
<1>1. Len(s) >= 1 /\ Tail(s) \in Seq(S) /\ Len(Tail(s)) = Len(s) - 1
      /\ \A i \in 1 .. Len(Tail(s)) : Tail(s)[i] = s[i + 1]
  BY HeadTailProperties, EmptySeq, LenProperties
<1>2. <<f>> \in Seq(S) /\ Len(<<f>>) = 1 /\ <<f>>[1] = f
  OBVIOUS
<1>3. /\ t \in Seq(S) /\ Len(t) = Len(s)
      /\ \A i \in 1 .. Len(t) : t[i] = IF i <= 1 THEN <<f>>[i] ELSE Tail(s)[i - 1]
  BY <1>1, <1>2, ConcatProperties
<1> QED
  BY <1>1, <1>2, <1>3

\* A call is put on top.
LEMMA TopPushed ==
    ASSUME NEW S, NEW s \in Seq(S), NEW f \in S, NEW t, t = <<f>> \o s
    PROVE  /\ t \in Seq(S) /\ Len(t) = Len(s) + 1
           /\ t[1] = f
           /\ \A i \in 2 .. Len(t) : t[i] = s[i - 1]
<1>1. <<f>> \in Seq(S) /\ Len(<<f>>) = 1 /\ <<f>>[1] = f
  OBVIOUS
<1>2. /\ t \in Seq(S) /\ Len(t) = Len(s) + 1
      /\ \A i \in 1 .. Len(t) : t[i] = IF i <= 1 THEN <<f>>[i] ELSE s[i - 1]
  BY <1>1, ConcatProperties
<1> QED
  BY <1>1, <1>2, LenProperties

\* The innermost call returns to the one that made it.
LEMMA TopPopped ==
    ASSUME NEW S, NEW s \in Seq(S), s # <<>>, Tail(s) # <<>>, NEW f \in S,
           NEW t, t = <<f>> \o Tail(Tail(s))
    PROVE  /\ t \in Seq(S) /\ Len(t) = Len(s) - 1
           /\ t[1] = f
           /\ \A i \in 2 .. Len(t) : t[i] = s[i + 1]
<1>1. Tail(s) \in Seq(S) /\ Len(Tail(s)) = Len(s) - 1 /\ Len(s) \in Nat
      /\ \A i \in 1 .. Len(Tail(s)) : Tail(s)[i] = s[i + 1]
  BY HeadTailProperties, LenProperties
<1>3. /\ t \in Seq(S) /\ Len(t) = Len(Tail(s)) /\ t[1] = f
      /\ \A i \in 2 .. Len(Tail(s)) : t[i] = Tail(s)[i]
  BY <1>1, TopReplaced
<1> QED
  BY <1>1, <1>3

----------------------------------------------------------------------------
(* What reads leave of the cursor. *)

\* Every kind of record begins with something to read.
LEMMA FirstInstruction ==
    ASSUME NEW kind \in Kinds
    PROVE  Len(Layout[kind]) >= 1
           /\ Layout[kind][1] \in {"first", "object", "line", "group_1"}
BY DEF Kinds, Layout

\* A call at any other part of its record is past its beginning.
LEMMA PastFirst ==
    ASSUME NEW frame \in Frames,
           Instruction(frame) \notin {"first", "object", "line", "group_1"}
    PROVE  frame.step > 1
BY FirstInstruction DEF Frames, Instruction, AtEnd

\* A size lies within the file.
LEMMA SizeIsRead ==
    ASSUME TypeInv, NEW p \in Nat, HasSize(p)
    PROVE  p + 2 <= Len(file) /\ Size(p) \in Nat
BY DEF TypeInv, HasSize, Size

\* An object that is read lies within the file.
LEMMA ObjectIsRead ==
    ASSUME TypeInv, NEW p \in 0 .. Len(file), NEW size \in Nat, HasObject(p, size)
    PROVE  ObjectEnd(p, size) \in p .. Len(file)
BY LenProperties DEF TypeInv, HasObject, ObjectEnd

\* An object that cannot be read leaves the cursor within the file.
LEMMA ObjectIsLeft ==
    ASSUME TypeInv, NEW p \in 0 .. Len(file), NEW size \in Nat, ~HasObject(p, size)
    PROVE  Stranded(p, size) \in p .. Len(file)
BY LenProperties DEF TypeInv, HasObject, Stranded

\* A field that is read lies within the file.
LEMMA FieldIsRead ==
    ASSUME TypeInv, NEW p \in 0 .. Len(file), HasField(p)
    PROVE  /\ FieldEnd(p) \in (p + 2) .. Len(file)
           /\ Size(p) \in Nat /\ Count(p) \in Nat
           /\ Size(p) = 2 => p + 5 <= Len(file)
<1>1. p + 2 \in 0 .. Len(file) /\ Size(p) \in Nat
  BY SizeIsRead, LenProperties DEF HasField, TypeInv
<1>2. FieldEnd(p) \in (p + 2) .. Len(file)
  BY <1>1, ObjectIsRead DEF HasField, FieldEnd
<1>3. Size(p) > 0 => p + 2 + Size(p) + 1 <= Len(file)
  BY <1>1 DEF HasField, HasObject
<1>4. Count(p) \in Nat
  <2>1. CASE Size(p) > 0
    <3>1. p + 3 \in 1 .. Len(file)
      BY <1>1, <1>3, <2>1, LenProperties DEF TypeInv
    <3>2. file[p + 3] \in Nat
      BY <3>1, ElementOfSeq DEF TypeInv
    <3> QED
      BY <2>1, <3>2 DEF Count
  <2>2. CASE ~(Size(p) > 0)
    BY <2>2 DEF Count
  <2> QED
    BY <2>1, <2>2
<1> QED
  BY <1>1, <1>2, <1>3, <1>4, LenProperties

\* A field that cannot be read leaves the cursor within the file.
LEMMA FieldIsLeft ==
    ASSUME TypeInv, NEW p \in 0 .. Len(file), ~HasField(p)
    PROVE  FieldStranded(p) \in p .. Len(file)
<1>1. CASE ~HasSize(p)
  BY <1>1 DEF FieldStranded
<1>2. CASE HasSize(p)
  <2>1. p + 2 \in 0 .. Len(file) /\ Size(p) \in Nat
    BY <1>2, SizeIsRead, LenProperties DEF TypeInv
  <2>2. Stranded(p + 2, Size(p)) \in (p + 2) .. Len(file)
    BY <1>2, <2>1, ObjectIsLeft DEF HasField
  <2> QED
    BY <1>2, <2>2 DEF FieldStranded
<1> QED
  BY <1>1, <1>2

\* A line that is there ends within the file.
LEMMA LineIsRead ==
    ASSUME TypeInv, NEW p \in 0 .. Len(file), HasLine(p)
    PROVE  LineEnd(p) \in (p + 1) .. Len(file)
<1> DEFINE ends == {i \in (p + 1) .. Len(file) : file[i] = NL}
<1>1. ends \subseteq Nat /\ ends # {}
  <2>1. Len(file) \in Nat /\ p \in Nat
    BY LenProperties DEF TypeInv
  <2> QED
    BY <2>1 DEF HasLine
<1>2. PICK i \in ends : \A j \in ends : ~(<<j, i>> \in OpToRel(<, Nat))
  BY <1>1, NatLessThanWellFounded, WFMin
<1>3. \A j \in ends : ~(j < i)
  BY <1>1, <1>2 DEF OpToRel
<1>4. \A j \in (p + 1) .. (i - 1) : file[j] # NL
  BY <1>3
<1> QED
  BY <1>2, <1>4 DEF LineEnd

----------------------------------------------------------------------------
(* What a step notes: nothing, the record that ends at the cursor, or one  *)
(* that begins there.                                                      *)
IsNew(new, c) ==
    /\ new \subseteq Elements
    /\ \A e, f \in new : e = f
    /\ \A e \in new :
          /\ e.start < e.end /\ e.end <= c
          /\ (e.start = Top.start /\ e.end = c) \/ cursor <= e.start

\* The innermost call is the first of the stack, and well-typed.
LEMMA TopIsFirst ==
    ASSUME TypeInv, stack # <<>>
    PROVE  /\ Len(stack) \in Nat /\ 1 \in 1 .. Len(stack)
           /\ Top = stack[1] /\ Top \in Frames
           /\ \A i \in 1 .. Len(stack) : stack[i] \in Frames
<1>1. Len(stack) \in Nat \ {0}
  BY EmptySeq DEF TypeInv
<1>2. \A i \in 1 .. Len(stack) : stack[i] \in Frames
  BY ElementOfSeq DEF TypeInv
<1> QED
  BY <1>1, <1>2 DEF Top

\* A call that was made by another is above it on the stack.
LEMMA CallerIsSecond ==
    ASSUME TypeInv, stack # <<>>, Len(stack) # 1
    PROVE  2 \in 2 .. Len(stack) /\ 2 \in 1 .. Len(stack) /\ Tail(stack) # <<>>
<1>1. Len(stack) \in Nat \ {0} /\ Len(Tail(stack)) = Len(stack) - 1
  BY EmptySeq, HeadTailProperties DEF TypeInv
<1> DEFINE n == Len(stack)
<1>2. n \in Nat \ {0} /\ n # 1 /\ Len(Tail(stack)) = n - 1
  BY <1>1
<1> HIDE DEF n
<1>3. 2 \in 2 .. n /\ 2 \in 1 .. n /\ Len(Tail(stack)) # 0
  BY <1>2
<1> QED
  BY <1>3, EmptySeq DEF n

\* What a walk has noted is well-typed.
LEMMA NotedIsTyped ==
    ASSUME TypeInv
    PROVE  Noted \subseteq Elements
<1>1. \A i \in DOMAIN stack : stack[i].kids \subseteq Elements
  <2>1. DOMAIN stack = 1 .. Len(stack)
    BY LenProperties DEF TypeInv
  <2>2. \A i \in 1 .. Len(stack) : stack[i] \in Frames
    BY ElementOfSeq DEF TypeInv
  <2> QED
    BY <2>1, <2>2 DEF Frames
<1> QED
  BY <1>1 DEF Noted, TypeInv

\* What is new is apart from what was noted, or around it, and no call begins inside it.
LEMMA NewIsApart ==
    ASSUME WalkInv, stack # <<>>, NEW c \in cursor .. Len(file), NEW new, IsNew(new, c)
    PROVE  /\ \A e \in new : \A d \in Noted : Disjoint(d, e) \/ Inside(d, e)
           /\ \A e \in new : \A i \in 1 .. Len(stack) : stack[i].start <= e.start
<1>1. /\ cursor \in Nat /\ c \in Nat
      /\ Top = stack[1] /\ Top \in Frames /\ 1 \in 1 .. Len(stack)
      /\ \A i \in 1 .. Len(stack) : stack[i] \in Frames
  BY TopIsFirst, LenProperties DEF WalkInv, TypeInv
<1>2. \A e \in Noted \cup new : e.start \in Nat /\ e.end \in Nat
  BY NotedIsTyped DEF WalkInv, IsNew, Elements
<1>3. ASSUME NEW e \in new, NEW d \in Noted
      PROVE  Disjoint(d, e) \/ Inside(d, e)
  <2>1. d.end <= cursor /\ (d.end <= Top.start \/ Top.start <= d.start)
    BY <1>1, <1>3 DEF WalkInv, Placed, NoneStraddles
  <2>2. (e.start = Top.start /\ e.end = c) \/ cursor <= e.start
    BY <1>3 DEF IsNew
  <2>3. Top.start \in Nat
    BY <1>1 DEF Frames
  <2> QED
    BY <1>1, <1>2, <2>1, <2>2, <2>3 DEF Disjoint, Inside
<1>4. ASSUME NEW e \in new, NEW i \in 1 .. Len(stack)
      PROVE  stack[i].start <= e.start
  <2>1. stack[i].start <= cursor /\ stack[i].start \in Nat /\ Top.start \in Nat
    BY <1>1, <1>4 DEF WalkInv, InOrder, Frames
  <2>2. stack[i].start <= Top.start
    <3>1. CASE i = 1
      BY <1>1, <2>1, <3>1
    <3>2. CASE i # 1
      BY <1>1, <1>4, <3>2 DEF WalkInv, InOrder
    <3> QED
      BY <3>1, <3>2
  <2>3. e.start = Top.start \/ cursor <= e.start
    BY <1>4 DEF IsNew
  <2> QED
    BY <1>1, <1>2, <1>4, <2>1, <2>2, <2>3
<1> QED
  BY <1>3, <1>4

\* Steps that note nothing else keep the ranges in place and nested.
LEMMA NotedKeeps ==
    ASSUME WalkInv, stack # <<>>, NEW c \in cursor .. Len(file), NEW new, IsNew(new, c),
           Noted' \subseteq Noted \cup new, cursor' = c, file' = file
    PROVE  Placed' /\ Nested'
<1>1. cursor \in Nat /\ c \in Nat /\ Len(file) \in Nat
  BY LenProperties DEF WalkInv, TypeInv
<1>2. \A e \in Noted \cup new : e.start \in Nat /\ e.end \in Nat
  BY NotedIsTyped DEF WalkInv, IsNew, Elements
<1>3. Placed'
  <2>1. \A e \in Noted \cup new : e.start < e.end /\ e.end <= c
    BY <1>1, <1>2 DEF WalkInv, Placed, IsNew
  <2> QED
    BY <1>1, <2>1 DEF Placed
<1>4. Nested'
  <2>1. \A a, b \in Noted \cup new : Disjoint(a, b) \/ Inside(a, b) \/ Inside(b, a)
    <3>1. ASSUME NEW a \in Noted, NEW b \in Noted
          PROVE  Disjoint(a, b) \/ Inside(a, b) \/ Inside(b, a)
      BY <3>1 DEF WalkInv, Nested
    <3>2. ASSUME NEW a \in Noted, NEW b \in new
          PROVE  Disjoint(a, b) \/ Inside(a, b)
      BY <3>2, NewIsApart
    <3>3. ASSUME NEW a \in new, NEW b \in Noted
          PROVE  Disjoint(a, b) \/ Inside(b, a)
      BY <3>3, NewIsApart DEF Disjoint
    <3>4. ASSUME NEW a \in new, NEW b \in new
          PROVE  Inside(a, b)
      BY <1>2, <3>4 DEF IsNew, Inside
    <3> QED
      BY <3>1, <3>2, <3>3, <3>4
  <2> QED
    BY <2>1 DEF Nested, Disjoint, Inside
<1> QED
  BY <1>3, <1>4

\* A call that was in progress still begins outside of every noted range.
LEMMA CallKept ==
    ASSUME WalkInv, stack # <<>>, NEW c \in cursor .. Len(file), NEW new, IsNew(new, c),
           Noted' \subseteq Noted \cup new, NEW i \in 1 .. Len(stack), NEW e \in Noted'
    PROVE  e.end <= stack[i].start \/ stack[i].start <= e.start
<1>1. CASE e \in Noted
  BY <1>1 DEF WalkInv, NoneStraddles
<1>2. CASE e \in new
  BY <1>2, NewIsApart
<1> QED
  BY <1>1, <1>2

----------------------------------------------------------------------------
(* The ways a step ends. *)

\* Going on with the innermost call.
LEMMA ContinueKeeps ==
    ASSUME WalkInv, stack # <<>>, NEW c \in cursor .. Len(file), NEW new, IsNew(new, c),
           NEW frame \in Frames, frame.kids \subseteq Top.kids \cup new,
           frame.start = Top.start \/ frame.start = c,
           frame.step > 1 => frame.start < c,
           Continue(c, frame), UNCHANGED inputVars
    PROVE  WalkInv'
<1>1. /\ Len(stack) \in Nat /\ 1 \in 1 .. Len(stack)
      /\ Top = stack[1] /\ Top \in Frames
      /\ \A i \in 1 .. Len(stack) : stack[i] \in Frames
  BY TopIsFirst DEF WalkInv
<1>2. cursor' = c /\ file' = file /\ found' = found /\ UNCHANGED <<section, outcome, strict, project, tolerant>>
  BY DEF Continue, inputVars
<1>3. /\ stack' \in Seq(Frames) /\ Len(stack') = Len(stack)
      /\ stack'[1] = frame
      /\ \A i \in 2 .. Len(stack) : stack'[i] = stack[i]
  BY TopReplaced DEF Continue, WalkInv, TypeInv
<1>4. Len(file) \in Nat /\ cursor \in Nat /\ c \in Nat
  BY LenProperties DEF WalkInv, TypeInv
<1>5. TypeInv'
  BY <1>2, <1>3, <1>4 DEF WalkInv, TypeInv
<1>6. Noted' \subseteq Noted \cup new
  <2>1. DOMAIN stack = 1 .. Len(stack) /\ DOMAIN stack' = 1 .. Len(stack)
    BY <1>3, LenProperties DEF WalkInv, TypeInv
  <2>2. ASSUME NEW i \in 1 .. Len(stack)
        PROVE  stack'[i].kids \subseteq Noted \cup new
    <3>1. CASE i = 1
      BY <1>1, <1>3, <2>1, <3>1 DEF Noted
    <3>2. CASE i # 1
      BY <1>1, <1>3, <2>1, <3>2 DEF Noted
    <3> QED
      BY <3>1, <3>2
  <2> QED
    BY <1>2, <2>1, <2>2 DEF Noted
<1>7. Placed' /\ Nested'
  BY <1>2, <1>6, NotedKeeps
<1>8. InOrder'
  <2>1. ASSUME NEW i \in 1 .. Len(stack)
        PROVE  /\ stack'[i].start <= c
               /\ stack'[i].step > 1 => stack'[i].start < c
               /\ \A j \in 1 .. Len(stack) : i < j => stack'[j].start <= stack'[i].start
    <3>1. /\ \A j \in 1 .. Len(stack) :
               /\ stack[j].start \in Nat /\ stack[j].start <= cursor
               /\ stack[j].step > 1 => stack[j].start < cursor
               /\ \A k \in 1 .. Len(stack) : j < k => stack[k].start <= stack[j].start
          /\ frame.start \in Nat
      BY <1>1 DEF WalkInv, InOrder, Frames
    <3>2. CASE i = 1
      BY <1>1, <1>3, <1>4, <3>1, <3>2
    <3>3. CASE i # 1
      BY <1>1, <1>3, <1>4, <3>1, <3>3
    <3> QED
      BY <3>2, <3>3
  <2> QED
    BY <1>2, <1>3, <2>1 DEF InOrder
<1>9. NoneStraddles'
  <2>1. ASSUME NEW i \in 1 .. Len(stack), NEW e \in Noted'
        PROVE  e.end <= stack'[i].start \/ stack'[i].start <= e.start
    <3>1. e.end <= stack[i].start \/ stack[i].start <= e.start
      BY <1>6, CallKept
    <3>2. e.end <= c
      BY <1>2, <1>7 DEF Placed
    <3>3. CASE i = 1
      BY <1>1, <1>3, <3>1, <3>2, <3>3
    <3>4. CASE i # 1
      BY <1>1, <1>3, <3>1, <3>4
    <3> QED
      BY <3>3, <3>4
  <2> QED
    BY <1>3, <2>1 DEF NoneStraddles
<1>10. CallersWait'
  BY <1>3 DEF WalkInv, CallersWait, IsWaiting, Instruction, AtEnd
<1> QED
  BY <1>5, <1>7, <1>8, <1>9, <1>10 DEF WalkInv

\* Calling for a part of the record.
LEMMA CallKeeps ==
    ASSUME WalkInv, stack # <<>>, NEW c \in cursor .. Len(file), NEW kind \in Kinds,
           IsWaiting(Top), Call(kind, c), UNCHANGED inputVars
    PROVE  WalkInv'
<1>1. /\ Len(stack) \in Nat /\ 1 \in 1 .. Len(stack)
      /\ Top = stack[1] /\ Top \in Frames
      /\ \A i \in 1 .. Len(stack) : stack[i] \in Frames
  BY TopIsFirst DEF WalkInv
<1>2. cursor' = c /\ file' = file /\ found' = found /\ UNCHANGED <<section, outcome, strict, project, tolerant>>
  BY DEF Call, inputVars
<1>3. Len(file) \in Nat /\ cursor \in Nat /\ c \in Nat
  BY LenProperties DEF WalkInv, TypeInv
<1> DEFINE frame == Frame(kind, c, {})
<1>4. frame \in Frames /\ frame.kids = {} /\ frame.start = c /\ frame.step = 1
  BY <1>3 DEF Frame, Frames
<1>5. /\ stack' \in Seq(Frames) /\ Len(stack') = Len(stack) + 1
      /\ stack'[1] = frame
      /\ \A i \in 2 .. Len(stack') : stack'[i] = stack[i - 1]
  <2>1. stack' = <<frame>> \o stack
    BY DEF Call
  <2>2. stack \in Seq(Frames)
    BY DEF WalkInv, TypeInv
  <2> HIDE DEF frame
  <2> QED
    BY <1>4, <2>1, <2>2, TopPushed
<1> HIDE DEF frame
<1>6. TypeInv'
  BY <1>2, <1>3, <1>5 DEF WalkInv, TypeInv
<1>7. IsNew({}, c)
  BY DEF IsNew
<1>8. Noted' \subseteq Noted
  <2>1. DOMAIN stack = 1 .. Len(stack) /\ DOMAIN stack' = 1 .. (Len(stack) + 1)
    BY <1>5, LenProperties DEF WalkInv, TypeInv
  <2>2. ASSUME NEW i \in 1 .. (Len(stack) + 1)
        PROVE  stack'[i].kids \subseteq Noted
    <3>1. CASE i = 1
      BY <1>4, <1>5, <3>1
    <3>2. CASE i # 1
      <4>1. i - 1 \in 1 .. Len(stack) /\ stack'[i] = stack[i - 1]
        BY <1>1, <1>5, <3>2
      <4> QED
        BY <2>1, <4>1 DEF Noted
    <3> QED
      BY <3>1, <3>2
  <2> QED
    BY <1>2, <2>1, <2>2 DEF Noted
<1>9. Placed' /\ Nested'
  BY <1>2, <1>7, <1>8, NotedKeeps
<1>10. /\ \A j \in 1 .. Len(stack) :
            /\ stack[j].start \in Nat /\ stack[j].start <= cursor
            /\ stack[j].step > 1 => stack[j].start < cursor
            /\ \A k \in 1 .. Len(stack) : j < k => stack[k].start <= stack[j].start
  BY <1>1 DEF WalkInv, InOrder, Frames
<1>11. InOrder'
  <2>1. ASSUME NEW i \in 1 .. (Len(stack) + 1)
        PROVE  /\ stack'[i].start <= c
               /\ stack'[i].step > 1 => stack'[i].start < c
               /\ \A j \in 1 .. (Len(stack) + 1) : i < j => stack'[j].start <= stack'[i].start
    <3>1. \A j \in 1 .. (Len(stack) + 1) :
              j # 1 => j - 1 \in 1 .. Len(stack) /\ stack'[j] = stack[j - 1]
      BY <1>1, <1>5
    <3>2. CASE i = 1
      <4>1. \A j \in 1 .. (Len(stack) + 1) : i < j => stack'[j].start <= c
        BY <1>3, <1>10, <3>1, <3>2
      <4> QED
        BY <1>3, <1>4, <1>5, <3>2, <4>1
    <3>3. CASE i # 1
      <4>1. i - 1 \in 1 .. Len(stack) /\ stack'[i] = stack[i - 1]
        BY <3>1, <3>3
      <4>2. /\ stack[i - 1].start <= c
            /\ stack[i - 1].step > 1 => stack[i - 1].start < c
        BY <1>3, <1>10, <4>1
      <4>3. ASSUME NEW j \in 1 .. (Len(stack) + 1), i < j
            PROVE  stack'[j].start <= stack'[i].start
        <5>1. j - 1 \in 1 .. Len(stack) /\ stack'[j] = stack[j - 1] /\ i - 1 < j - 1
          BY <1>1, <3>1, <4>3
        <5> QED
          BY <1>10, <4>1, <5>1
      <4> QED
        BY <4>1, <4>2, <4>3
    <3> QED
      BY <3>2, <3>3
  <2> QED
    BY <1>2, <1>5, <2>1 DEF InOrder
<1>12. NoneStraddles'
  <2>1. ASSUME NEW i \in 1 .. (Len(stack) + 1), NEW e \in Noted'
        PROVE  e.end <= stack'[i].start \/ stack'[i].start <= e.start
    <3>1. CASE i = 1
      BY <1>2, <1>4, <1>5, <1>9, <3>1 DEF Placed
    <3>2. CASE i # 1
      <4>1. i - 1 \in 1 .. Len(stack) /\ stack'[i] = stack[i - 1]
        BY <1>1, <1>5, <3>2
      <4> QED
        BY <1>8, <4>1 DEF WalkInv, NoneStraddles
    <3> QED
      BY <3>1, <3>2
  <2> QED
    BY <1>5, <2>1 DEF NoneStraddles
<1>13. CallersWait'
  <2>1. ASSUME NEW i \in 2 .. Len(stack')
        PROVE  IsWaiting(stack'[i])
    <3>1. i - 1 \in 1 .. Len(stack) /\ stack'[i] = stack[i - 1]
      BY <1>1, <1>5
    <3>2. IsWaiting(stack[i - 1])
      BY <1>1, <3>1 DEF WalkInv, CallersWait
    <3> QED
      BY <3>1, <3>2
  <2> QED
    BY <2>1 DEF CallersWait, IsWaiting, Instruction, AtEnd
<1> QED
  BY <1>6, <1>9, <1>11, <1>12, <1>13 DEF WalkInv

\* A call that waited goes on where it was, with what it was given.
LEMMA CallerResumes ==
    ASSUME NEW f \in Frames, IsWaiting(f), NEW kids \in SUBSET Elements, NEW ok \in BOOLEAN
    PROVE  /\ Resumed(f, kids, ok) \in Frames
           /\ Resumed(f, kids, ok).start = f.start
           /\ Resumed(f, kids, ok).kids = f.kids \cup kids
<1> DEFINE caller == [f EXCEPT !.kids = @ \cup kids]
<1>1. /\ caller \in Frames
      /\ caller.start = f.start /\ caller.kids = f.kids \cup kids
      /\ caller.n = f.n /\ caller.step = f.step
  BY DEF Frames
<1> HIDE DEF caller
<1>2. CASE Instruction(f) = "leaves"
  <2>1. f.n \in Nat \ {0}
    BY <1>2 DEF IsWaiting, Frames
  <2>2. Resumed(f, kids, ok) = [caller EXCEPT !.n = IF ok THEN @ - 1 ELSE 0]
    BY <1>2 DEF Resumed, caller
  <2>3. (IF ok THEN caller.n - 1 ELSE 0) \in Nat
    BY <1>1, <2>1
  <2> QED
    BY <1>1, <2>2, <2>3 DEF Frames
<1>3. CASE Instruction(f) = "folders"
  <2>1. f.n \in Nat \ {0}
    BY <1>3 DEF IsWaiting, Frames
  <2>2. Resumed(f, kids, ok) = [caller EXCEPT !.n = @ - 1]
    BY <1>3 DEF Resumed, caller
  <2>3. caller.n - 1 \in Nat
    BY <1>1, <2>1
  <2> QED
    BY <1>1, <2>2, <2>3 DEF Frames
<1>4. CASE Instruction(f) \notin {"leaves", "folders"}
  <2>1. Resumed(f, kids, ok) = [caller EXCEPT !.step = @ + 1]
    BY <1>4 DEF Resumed, Stepped, caller
  <2> QED
    BY <1>1, <2>1 DEF Frames
<1> QED
  BY <1>2, <1>3, <1>4

\* Returning, to a call that waits or to walk_opj_file.
LEMMA ReturnKeeps ==
    ASSUME WalkInv, stack # <<>>, NEW c \in cursor .. Len(file), NEW new, IsNew(new, c),
           NEW kids, kids \subseteq Top.kids \cup new, NEW ok \in BOOLEAN,
           Return(c, kids, ok), UNCHANGED inputVars
    PROVE  WalkInv'
<1>1. /\ Len(stack) \in Nat /\ 1 \in 1 .. Len(stack)
      /\ Top = stack[1] /\ Top \in Frames
      /\ \A i \in 1 .. Len(stack) : stack[i] \in Frames
  BY TopIsFirst DEF WalkInv
<1>2. cursor' = c /\ file' = file /\ UNCHANGED <<section, outcome, strict, project, tolerant>>
  BY DEF Return, inputVars
<1>3. Len(file) \in Nat /\ cursor \in Nat /\ c \in Nat
  BY LenProperties DEF WalkInv, TypeInv
<1>4. DOMAIN stack = 1 .. Len(stack)
  BY LenProperties DEF WalkInv, TypeInv
<1>5. kids \subseteq Noted \cup new /\ kids \subseteq Elements
  <2>1. Top.kids \subseteq Noted
    BY <1>1, <1>4 DEF Noted
  <2> QED
    BY <2>1, NotedIsTyped DEF WalkInv, IsNew
<1>6. CASE Len(stack) = 1
  <2>1. stack' = <<>> /\ found' = found \cup kids
    BY <1>6 DEF Return
  <2>2. stack' \in Seq(Frames) /\ Len(stack') = 0 /\ DOMAIN stack' = {}
    BY <2>1, EmptySeq
  <2>3. TypeInv'
    BY <1>2, <1>3, <1>5, <2>1, <2>2 DEF WalkInv, TypeInv
  <2>4. Noted' \subseteq Noted \cup new
    BY <1>5, <2>1, <2>2 DEF Noted
  <2>5. Placed' /\ Nested'
    BY <1>2, <2>4, NotedKeeps
  <2>6. InOrder' /\ NoneStraddles' /\ CallersWait'
    BY <2>2 DEF InOrder, NoneStraddles, CallersWait
  <2> QED
    BY <2>3, <2>5, <2>6 DEF WalkInv
<1>7. CASE Len(stack) # 1
  <2> DEFINE frame == Resumed(stack[2], kids, ok)
  <2>1. 2 \in 1 .. Len(stack) /\ stack[2] \in Frames /\ IsWaiting(stack[2])
    <3>1. 2 \in 2 .. Len(stack) /\ 2 \in 1 .. Len(stack)
      BY <1>7, CallerIsSecond DEF WalkInv
    <3> QED
      BY <1>1, <3>1 DEF WalkInv, CallersWait
  <2>2. stack' = <<frame>> \o Tail(Tail(stack)) /\ found' = found
    BY <1>7 DEF Return
  <2>3. /\ frame \in Frames /\ frame.start = stack[2].start
        /\ frame.kids = stack[2].kids \cup kids
    BY ZenonT(30), <1>5, <2>1, CallerResumes
  <2>4. stack[2].start < c
    BY <1>1, <1>3, <2>1 DEF WalkInv, InOrder, IsWaiting, Frames
  <2> HIDE DEF frame
  <2>5. /\ stack' \in Seq(Frames) /\ Len(stack') = Len(stack) - 1
        /\ stack'[1] = frame
        /\ \A i \in 2 .. Len(stack') : stack'[i] = stack[i + 1]
    <3>1. stack \in Seq(Frames) /\ Tail(stack) # <<>>
      BY <1>7, CallerIsSecond DEF WalkInv, TypeInv
    <3> QED
      BY <2>2, <2>3, <3>1, TopPopped
  <2>6. TypeInv'
    <3>1. found' = found /\ stack' \in Seq(Frames)
      BY <2>2, <2>5
    <3> QED
      BY <1>2, <1>3, <3>1 DEF WalkInv, TypeInv
  <2>7. \A i \in 1 .. Len(stack') : /\ i + 1 \in 1 .. Len(stack)
                                    /\ stack'[i].start = stack[i + 1].start
                                    /\ stack'[i].kids \subseteq stack[i + 1].kids \cup kids
    <3>1. ASSUME NEW i \in 1 .. Len(stack')
          PROVE  /\ i + 1 \in 1 .. Len(stack)
                 /\ stack'[i].start = stack[i + 1].start
                 /\ stack'[i].kids \subseteq stack[i + 1].kids \cup kids
      <4>1. i + 1 \in 1 .. Len(stack)
        BY <1>1, <2>5
      <4>2. CASE i = 1
        BY <2>3, <2>5, <4>1, <4>2
      <4>3. CASE i # 1
        BY <2>5, <4>1, <4>3
      <4> QED
        BY <4>1, <4>2, <4>3
    <3> QED
      BY <3>1
  <2>8. Noted' \subseteq Noted \cup new
    <3>1. DOMAIN stack' = 1 .. Len(stack')
      BY <2>5, LenProperties
    <3>2. ASSUME NEW i \in 1 .. Len(stack')
          PROVE  stack'[i].kids \subseteq Noted \cup new
      <4>1. stack[i + 1].kids \subseteq Noted
        BY <1>4, <2>7 DEF Noted
      <4> QED
        BY <1>5, <2>7, <4>1
    <3> QED
      BY ZenonT(30), <2>2, <3>1, <3>2 DEF Noted
  <2>9. Placed' /\ Nested'
    BY <1>2, <2>8, NotedKeeps
  <2>10. InOrder'
    <3>1. ASSUME NEW i \in 1 .. Len(stack')
          PROVE  /\ stack'[i].start <= c
                 /\ stack'[i].step > 1 => stack'[i].start < c
                 /\ \A j \in 1 .. Len(stack') : i < j => stack'[j].start <= stack'[i].start
      <4>1. /\ \A j \in 1 .. Len(stack) :
                 /\ stack[j].start \in Nat /\ stack[j].start <= cursor
                 /\ stack[j].step > 1 => stack[j].start < cursor
                 /\ \A k \in 1 .. Len(stack) : j < k => stack[k].start <= stack[j].start
        BY <1>1 DEF WalkInv, InOrder, Frames
      <4>2. stack'[i].start <= c
        BY <1>3, <2>7, <4>1
      <4>3. stack'[i].step > 1 => stack'[i].start < c
        <5>1. CASE i = 1
          BY <2>3, <2>4, <2>5, <5>1
        <5>2. CASE i # 1
          BY <1>3, <2>5, <2>7, <4>1, <5>2
        <5> QED
          BY <5>1, <5>2
      <4>4. ASSUME NEW j \in 1 .. Len(stack'), i < j
            PROVE  stack'[j].start <= stack'[i].start
        BY SMTT(20), <2>7, <4>1, <4>4
      <4> QED
        BY <4>2, <4>3, <4>4
    <3> QED
      BY <1>2, <3>1 DEF InOrder
  <2>11. NoneStraddles'
    BY <2>7, <2>8, CallKept DEF NoneStraddles
  <2>12. CallersWait'
    <3>1. ASSUME NEW i \in 2 .. Len(stack')
          PROVE  IsWaiting(stack'[i])
      <4>1. i + 1 \in 2 .. Len(stack) /\ stack'[i] = stack[i + 1]
        BY <1>1, <2>5
      <4> QED
        BY <4>1 DEF WalkInv, CallersWait
    <3> QED
      BY <3>1 DEF CallersWait, IsWaiting, Instruction, AtEnd
  <2> QED
    BY <2>6, <2>9, <2>10, <2>11, <2>12 DEF WalkInv
<1> QED
  BY <1>6, <1>7

\* Raising leaves everything where it is.
LEMMA RaiseKeeps ==
    ASSUME WalkInv, NEW fault \in Outcomes, Raise(fault), UNCHANGED inputVars
    PROVE  WalkInv'
<1>1. outcome' = fault /\ UNCHANGED <<project, file, tolerant, cursor, section, stack, found, strict>>
  BY DEF Raise, inputVars
<1>2. TypeInv'
  BY <1>1 DEF WalkInv, TypeInv
<1>3. Noted' = Noted
  BY <1>1 DEF Noted
<1>4. Placed' /\ Nested' /\ InOrder' /\ NoneStraddles' /\ CallersWait'
  BY <1>1, <1>3 DEF WalkInv, Placed, Nested, InOrder, NoneStraddles, CallersWait,
                    IsWaiting, Instruction, AtEnd, Disjoint, Inside
<1> QED
  BY <1>2, <1>4 DEF WalkInv

\* A step that notes nothing.
LEMMA NothingIsNew == ASSUME NEW c PROVE IsNew({}, c)
BY DEF IsNew

\* Going on in the same record, once something of it has been read.
LEMMA GoOnKeeps ==
    ASSUME WalkInv, stack # <<>>, NEW c \in cursor .. Len(file),
           NEW frame \in Frames, frame.kids = Top.kids, frame.start = Top.start,
           cursor < c \/ Top.step > 1,
           Continue(c, frame), UNCHANGED inputVars
    PROVE  WalkInv'
<1>1. Top = stack[1] /\ Top \in Frames /\ 1 \in 1 .. Len(stack)
  BY TopIsFirst DEF WalkInv
<1>2. cursor \in Nat /\ c \in Nat
  BY LenProperties DEF WalkInv, TypeInv
<1>3. Top.start < c
  BY <1>1, <1>2 DEF WalkInv, InOrder, Frames
<1> QED
  BY <1>1, <1>3, NothingIsNew, ContinueKeeps

\* A read that fails, in either mode.
LEMMA FailKeeps ==
    ASSUME WalkInv, stack # <<>>, NEW c \in cursor .. Len(file),
           NEW fault \in {"error", "truncated"}, Fail(c, fault), UNCHANGED inputVars
    PROVE  WalkInv'
<1>1. Top \in Frames
  BY TopIsFirst DEF WalkInv
<1>2. CASE ~tolerant
  BY <1>2, RaiseKeeps DEF Fail, Outcomes
<1>3. CASE tolerant /\ Top.kind \in Lists
  BY <1>3, NothingIsNew, ReturnKeeps DEF Fail
<1>4. CASE tolerant /\ Top.kind \notin Lists /\ Top.kind = "project_tree" /\ Instruction(Top) = "mark"
  <2>1. Continue(c, Stepped(Top))
    BY <1>4 DEF Fail
  <2>2. Top.step > 1
    BY <1>1, <1>4, PastFirst
  <2>3. Stepped(Top) \in Frames /\ Stepped(Top).kids = Top.kids /\ Stepped(Top).start = Top.start
    BY <1>1 DEF Stepped, Frames
  <2> QED
    BY <2>1, <2>2, <2>3, GoOnKeeps
<1>5. CASE tolerant /\ Top.kind \notin Lists /\ ~(Top.kind = "project_tree" /\ Instruction(Top) = "mark")
  BY <1>5, NothingIsNew, ReturnKeeps DEF Fail
<1> QED
  BY <1>2, <1>3, <1>4, <1>5

----------------------------------------------------------------------------
(* The steps of a walk. *)

\* A part that is called for is not read first.
LEMMA KindsAreCalled ==
    Kinds \cap {"first", "object", "line", "group_1", "leaves", "folders"} = {}
BY DEF Kinds, Layout

\* What a step finds: a call in progress and the cursor in the file.
LEMMA StepSees ==
    ASSUME WalkInv, stack # <<>>
    PROVE  /\ Top \in Frames
           /\ cursor \in Nat /\ Len(file) \in Nat /\ cursor <= Len(file)
           /\ \A i \in 1 .. Len(file) : file[i] \in Nat
BY TopIsFirst, LenProperties, ElementOfSeq DEF WalkInv, TypeInv

\* Beginning a section keeps the invariant.
LEMMA BeginSectionKeeps == WalkInv /\ BeginSection => WalkInv'
<1> SUFFICES ASSUME WalkInv, BeginSection PROVE WalkInv'
  OBVIOUS
<1> DEFINE frame == Frame(Sections[section + 1], cursor, {})
<1>1. cursor \in Nat /\ Len(file) \in Nat
  BY LenProperties DEF WalkInv, TypeInv
<1>2. section \in 0 .. 6
  BY DEF WalkInv, TypeInv, BeginSection, Sections
<1>3. Sections[section + 1] \in Kinds
  BY <1>2 DEF Sections, Kinds, Layout
<1>4. frame \in Frames /\ frame.kids = {} /\ frame.start = cursor /\ frame.step = 1
  BY <1>1, <1>3 DEF Frame, Frames
<1>5. /\ stack = <<>> /\ stack' = <<frame>> /\ section' = section + 1
      /\ UNCHANGED <<cursor, found, outcome, project, file, tolerant, strict>>
  BY DEF BeginSection, inputVars
<1> HIDE DEF frame
<1>6. /\ stack' \in Seq(Frames) /\ Len(stack') = 1 /\ stack'[1] = frame /\ DOMAIN stack' = {1}
      /\ DOMAIN stack = {}
  BY <1>4, <1>5
<1>7. section' \in 0 .. Len(Sections)
  BY <1>2, <1>5 DEF Sections
<1>8. TypeInv'
  BY <1>5, <1>6, <1>7 DEF WalkInv, TypeInv
<1>9. Noted' = Noted
  BY <1>4, <1>5, <1>6 DEF Noted
<1>10. Placed' /\ Nested'
  BY <1>5, <1>9 DEF WalkInv, Placed, Nested, Disjoint, Inside
<1>11. InOrder' /\ CallersWait'
  BY <1>1, <1>4, <1>5, <1>6 DEF InOrder, CallersWait
<1>12. NoneStraddles'
  BY <1>4, <1>5, <1>6, <1>9 DEF WalkInv, Placed, NoneStraddles
<1> QED
  BY <1>8, <1>10, <1>11, <1>12 DEF WalkInv

\* Completing a walk keeps the invariant.
LEMMA CompleteKeeps == WalkInv /\ Complete => WalkInv'
BY DEF Complete, inputVars, WalkInv, TypeInv, Placed, Nested, InOrder, NoneStraddles,
       CallersWait, IsWaiting, Instruction, AtEnd, Noted, Disjoint, Inside, Outcomes

\* Walking again keeps the invariant: nothing is noted yet.
LEMMA WalkAgainKeeps == WalkInv /\ WalkAgain => WalkInv'
<1> SUFFICES ASSUME WalkInv, WalkAgain PROVE WalkInv'
  OBVIOUS
<1>1. Noted \subseteq Elements
  BY NotedIsTyped DEF WalkInv
<1>2. /\ cursor' = 0 /\ section' = 0 /\ stack' = <<>> /\ found' = {} /\ outcome' = "walking"
      /\ tolerant' = TRUE /\ file' = file /\ project' = project
      /\ strict' = [outcome |-> outcome, elements |-> Noted]
  BY DEF WalkAgain
<1>3. stack' \in Seq(Frames) /\ Len(stack') = 0 /\ DOMAIN stack' = {}
  BY <1>2
<1>4. Len(file) \in Nat
  BY LenProperties DEF WalkInv, TypeInv
<1>5. TypeInv'
  BY <1>1, <1>2, <1>3, <1>4 DEF WalkInv, TypeInv, Outcomes, Sections
<1>6. Noted' = {}
  BY <1>2, <1>3 DEF Noted
<1>7. Placed' /\ Nested' /\ InOrder' /\ NoneStraddles' /\ CallersWait'
  BY <1>2, <1>3, <1>4, <1>6 DEF Placed, Nested, InOrder, NoneStraddles, CallersWait
<1> QED
  BY <1>5, <1>7 DEF WalkInv

\* Ending a list keeps the invariant.
LEMMA EndListKeeps == WalkInv /\ EndList => WalkInv'
<1> SUFFICES ASSUME WalkInv, EndList PROVE WalkInv'
  OBVIOUS
<1>1. stack # <<>> /\ HasSize(cursor) /\ Return(cursor + 2, Top.kids, TRUE) /\ UNCHANGED inputVars
  BY DEF EndList, At
<1>2. cursor + 2 \in cursor .. Len(file)
  BY <1>1, StepSees, SizeIsRead DEF WalkInv
<1> QED
  BY <1>1, <1>2, NothingIsNew, ReturnKeeps

\* Reading an object, whether it is there or not, keeps the invariant.
LEMMA ReadFieldKeeps == WalkInv /\ ReadField => WalkInv'
<1> SUFFICES ASSUME WalkInv, ReadField PROVE WalkInv'
  OBVIOUS
<1>1. stack # <<>> /\ UNCHANGED inputVars
  BY DEF ReadField, At
<1>2. /\ Top \in Frames /\ cursor \in 0 .. Len(file)
      /\ cursor \in Nat /\ Len(file) \in Nat
  BY <1>1, StepSees
<1>3. CASE ~HasField(cursor)
  <2>1. FieldFault(cursor) \in {"error", "truncated"}
    BY DEF FieldFault, ObjectFault, SizeFault
  <2>2. FieldStranded(cursor) \in cursor .. Len(file)
    BY <1>2, <1>3, FieldIsLeft DEF WalkInv
  <2>3. Fail(FieldStranded(cursor), FieldFault(cursor))
    BY <1>3 DEF ReadField
  <2> QED
    BY <1>1, <2>1, <2>2, <2>3, FailKeeps
<1>4. CASE HasField(cursor)
  <2>1. /\ FieldEnd(cursor) \in (cursor + 2) .. Len(file)
        /\ Size(cursor) \in Nat /\ Count(cursor) \in Nat
    BY <1>2, <1>4, FieldIsRead DEF WalkInv
  <2>2. FieldEnd(cursor) \in cursor .. Len(file) /\ cursor < FieldEnd(cursor)
    BY <1>2, <2>1
  <2> DEFINE top == Stepped(Top)
  <2>6. top \in Frames /\ top.kids = Top.kids /\ top.start = Top.start
    BY <1>2 DEF Stepped, Frames
  <2>3. CASE Instruction(Top) = "properties"
    <3> DEFINE frame == [Top EXCEPT !.n = @ - 1]
    <3>1. Continue(FieldEnd(cursor), frame) /\ Top.n > 0
      BY <1>4, <2>3 DEF ReadField
    <3>2. frame \in Frames /\ frame.kids = Top.kids /\ frame.start = Top.start
      BY <1>2, <3>1 DEF Frames
    <3> HIDE DEF frame
    <3> QED
      BY <1>1, <2>2, <3>1, <3>2, GoOnKeeps
  <2>4. CASE Instruction(Top) = "counted"
    <3> DEFINE frame == [top EXCEPT !.n = Count(cursor)]
    <3>1. Continue(FieldEnd(cursor), frame)
      BY <1>4, <2>4 DEF ReadField
    <3> HIDE DEF top
    <3>2. frame \in Frames /\ frame.kids = Top.kids /\ frame.start = Top.start
      BY <2>1, <2>6 DEF Frames
    <3> HIDE DEF frame
    <3> QED
      BY <1>1, <2>2, <3>1, <3>2, GoOnKeeps
  <2>5. CASE Instruction(Top) \notin {"properties", "counted"}
    <3> DEFINE frame == [top EXCEPT !.n = Size(cursor)]
    <3>1. Continue(FieldEnd(cursor), frame)
      BY <1>4, <2>5 DEF ReadField
    <3> HIDE DEF top
    <3>2. frame \in Frames /\ frame.kids = Top.kids /\ frame.start = Top.start
      BY <2>1, <2>6 DEF Frames
    <3> HIDE DEF frame
    <3> QED
      BY <1>1, <2>2, <3>1, <3>2, GoOnKeeps
  <2> QED
    BY <2>3, <2>4, <2>5
<1> QED
  BY <1>3, <1>4

\* A call that is made by a record which has read something keeps the invariant.
LEMMA CallsKeep ==
    WalkInv /\ (EnterGroup \/ CallLeaf \/ CallFolder \/ CallPart) => WalkInv'
<1> SUFFICES ASSUME WalkInv, EnterGroup \/ CallLeaf \/ CallFolder \/ CallPart PROVE WalkInv'
  OBVIOUS
<1>1. stack # <<>> /\ UNCHANGED inputVars
  BY DEF EnterGroup, CallLeaf, CallFolder, CallPart, At
<1>2. /\ Top \in Frames /\ cursor \in cursor .. Len(file)
      /\ cursor \in Nat /\ Len(file) \in Nat
  BY <1>1, StepSees
<1>3. {"annotation", "project_leaf", "project_folder"} \subseteq Kinds
  BY DEF Kinds, Layout
<1>4. CASE EnterGroup
  <2>1. Instruction(Top) = "group" /\ HasSize(cursor) /\ Call("annotation", cursor + 2)
    BY <1>4 DEF EnterGroup, IsGroup
  <2>2. cursor + 2 \in cursor .. Len(file)
    BY <1>2, <2>1, SizeIsRead DEF WalkInv
  <2>3. IsWaiting(Top)
    BY <1>2, <2>1, PastFirst DEF IsWaiting
  <2> QED
    BY <1>1, <1>3, <2>1, <2>2, <2>3, CallKeeps
<1>5. CASE CallLeaf
  <2>1. Instruction(Top) = "leaves" /\ Top.n > 0 /\ Call("project_leaf", cursor)
    BY <1>5 DEF CallLeaf, At
  <2>2. IsWaiting(Top)
    BY <1>2, <2>1, PastFirst DEF IsWaiting
  <2> QED
    BY <1>1, <1>2, <1>3, <2>1, <2>2, CallKeeps
<1>6. CASE CallFolder
  <2>1. Instruction(Top) = "folders" /\ Top.n > 0 /\ Call("project_folder", cursor)
    BY <1>6 DEF CallFolder, At
  <2>2. IsWaiting(Top)
    BY <1>2, <2>1, PastFirst DEF IsWaiting
  <2> QED
    BY <1>1, <1>2, <1>3, <2>1, <2>2, CallKeeps
<1>7. CASE CallPart
  <2>1. Instruction(Top) \in Kinds /\ Call(Instruction(Top), cursor)
    BY <1>7 DEF CallPart, At
  <2>2. IsWaiting(Top)
    BY <1>2, <2>1, PastFirst, KindsAreCalled DEF IsWaiting
  <2> QED
    BY <1>1, <1>2, <2>1, <2>2, CallKeeps
<1> QED
  BY <1>4, <1>5, <1>6, <1>7

\* A mark, a number of properties or the end of a loop keeps the invariant.
LEMMA MarksKeep ==
    WalkInv /\ (ReadMark \/ ReadTimes \/ EndLoop \/ EndAttachments1) => WalkInv'
<1> SUFFICES ASSUME WalkInv, ReadMark \/ ReadTimes \/ EndLoop \/ EndAttachments1 PROVE WalkInv'
  OBVIOUS
<1>1. stack # <<>> /\ UNCHANGED inputVars
  BY DEF ReadMark, ReadTimes, EndLoop, EndAttachments1, At
<1>2. /\ Top \in Frames /\ cursor \in cursor .. Len(file)
      /\ cursor \in Nat /\ Len(file) \in Nat
  BY <1>1, StepSees
<1>3. HasSize(cursor) => cursor + 2 \in cursor .. Len(file) /\ Size(cursor) \in Nat
  BY <1>2, SizeIsRead DEF WalkInv
<1>4. SizeFault(cursor) \in {"error", "truncated"}
  BY DEF SizeFault
<1>5. Stepped(Top) \in Frames /\ Stepped(Top).kids = Top.kids /\ Stepped(Top).start = Top.start
  BY <1>2 DEF Stepped, Frames
<1>6. CASE ReadMark
  <2>1. CASE ~HasSize(cursor)
    BY <1>1, <1>2, <1>4, <1>6, <2>1, FailKeeps DEF ReadMark
  <2>2. CASE HasSize(cursor) /\ Size(cursor) # 0 /\ (~tolerant \/ Top.kind = "project_leaf")
    BY <1>1, <1>3, <1>6, <2>2, FailKeeps DEF ReadMark
  <2>3. CASE HasSize(cursor) /\ ~(Size(cursor) # 0 /\ (~tolerant \/ Top.kind = "project_leaf"))
    <3>1. Continue(cursor + 2, Stepped(Top))
      BY <1>6, <2>3 DEF ReadMark
    <3> QED
      BY <1>1, <1>2, <1>3, <1>5, <2>3, <3>1, GoOnKeeps
  <2> QED
    BY <2>1, <2>2, <2>3
<1>7. CASE ReadTimes
  <2>1. CASE ~HasSize(cursor)
    BY <1>1, <1>2, <1>4, <1>7, <2>1, FailKeeps DEF ReadTimes
  <2>2. CASE HasSize(cursor)
    <3> DEFINE frame == [Stepped(Top) EXCEPT !.n = Size(cursor)]
    <3>1. Continue(cursor + 2, frame)
      BY <1>7, <2>2 DEF ReadTimes
    <3>2. frame \in Frames /\ frame.kids = Top.kids /\ frame.start = Top.start
      BY <1>3, <1>5, <2>2 DEF Frames
    <3> HIDE DEF frame
    <3> QED
      BY <1>1, <1>2, <1>3, <2>2, <3>1, <3>2, GoOnKeeps
  <2> QED
    BY <2>1, <2>2
<1>8. CASE EndLoop
  <2>1. Top.step > 1
    BY <1>2, <1>8, PastFirst DEF EndLoop, At
  <2> QED
    BY <1>1, <1>2, <1>5, <1>8, <2>1, GoOnKeeps DEF EndLoop
<1>9. CASE EndAttachments1
  <2>1. Top.step > 1
    BY <1>2, <1>9, PastFirst DEF EndAttachments1, At
  <2> QED
    BY <1>1, <1>2, <1>5, <1>9, <2>1, GoOnKeeps DEF EndAttachments1
<1> QED
  BY <1>6, <1>7, <1>8, <1>9

\* Noting a record that is complete keeps the invariant.
LEMMA EmitKeeps == WalkInv /\ Emit => WalkInv'
<1> SUFFICES ASSUME WalkInv, Emit PROVE WalkInv'
  OBVIOUS
<1> DEFINE new == {Element(Top.kind, Top.start, cursor)}
           kids == Top.kids \cup new
           frame == Frame(Top.kind, cursor, kids)
<1>1. stack # <<>> /\ UNCHANGED inputVars /\ Instruction(Top) = "emit"
  BY DEF Emit, At
<1>2. /\ Top \in Frames /\ cursor \in cursor .. Len(file)
      /\ cursor \in Nat /\ Len(file) \in Nat
  BY <1>1, StepSees
<1>3. Top.step > 1
  BY <1>1, <1>2, PastFirst
<1>4. Top.start < cursor
  BY <1>1, <1>3, TopIsFirst DEF WalkInv, InOrder
<1>5. IsNew(new, cursor)
  BY <1>2, <1>4 DEF IsNew, Element, Elements, Frames
<1>6. CASE Top.kind \in Lists
  <2>1. Continue(cursor, frame)
    BY <1>6 DEF Emit
  <2>2. /\ frame \in Frames /\ frame.kids = kids /\ frame.start = cursor /\ frame.step = 1
    <3>1. new \subseteq Elements
      BY <1>5 DEF IsNew
    <3> HIDE DEF new
    <3> QED
      BY <1>2, <3>1 DEF Frame, Frames
  <2> HIDE DEF frame, new
  <2> QED
    BY <1>1, <1>2, <1>5, <2>1, <2>2, ContinueKeeps
<1>7. CASE Top.kind \notin Lists
  <2>1. Return(cursor, kids, TRUE)
    BY <1>7 DEF Emit
  <2> HIDE DEF new
  <2> QED
    BY <1>1, <1>2, <1>5, <2>1, ReturnKeeps
<1> QED
  BY <1>6, <1>7

\* Reading a parameter, or what is left of one, keeps the invariant.
LEMMA ReadParameterKeeps == WalkInv /\ ReadParameter => WalkInv'
<1> SUFFICES ASSUME WalkInv, ReadParameter PROVE WalkInv'
  OBVIOUS
<1> DEFINE value == LineEnd(cursor)
<1>1. stack # <<>> /\ UNCHANGED inputVars /\ HasLine(cursor)
  BY DEF ReadParameter, At
<1>2. /\ Top \in Frames /\ cursor \in 0 .. Len(file)
      /\ cursor \in Nat /\ Len(file) \in Nat
  BY <1>1, StepSees
<1>3. value \in (cursor + 1) .. Len(file)
  BY <1>1, <1>2, LineIsRead DEF WalkInv
<1>4. CASE value + 2 > Len(file)
  <2>1. Fail(value, "error")
    BY <1>4 DEF ReadParameter
  <2> HIDE DEF value
  <2>2. value \in cursor .. Len(file)
    BY <1>2, <1>3
  <2> QED
    BY <1>1, <2>1, <2>2, FailKeeps
<1>5. CASE ~(value + 2 > Len(file)) /\ file[value + 2] # NL
  <2>1. Fail(value + 2, "error")
    BY <1>5 DEF ReadParameter
  <2> HIDE DEF value
  <2>2. value + 2 \in cursor .. Len(file)
    BY <1>2, <1>3, <1>5
  <2> QED
    BY <1>1, <2>1, <2>2, FailKeeps
<1>6. CASE ~(value + 2 > Len(file)) /\ ~(file[value + 2] # NL)
  <2>1. Continue(value + 2, Stepped(Top))
    BY <1>6 DEF ReadParameter
  <2>2. Stepped(Top) \in Frames /\ Stepped(Top).kids = Top.kids /\ Stepped(Top).start = Top.start
    BY <1>2 DEF Stepped, Frames
  <2> HIDE DEF value
  <2>3. value + 2 \in cursor .. Len(file) /\ cursor < value + 2
    BY <1>2, <1>3, <1>6
  <2> QED
    BY <1>1, <2>1, <2>2, <2>3, GoOnKeeps
<1> QED
  BY <1>4, <1>5, <1>6

\* Reading the end of the parameters keeps the invariant.
LEMMA EndParametersKeeps == WalkInv /\ EndParameters => WalkInv'
<1> SUFFICES ASSUME WalkInv, EndParameters PROVE WalkInv'
  OBVIOUS
<1> DEFINE mark == LineEnd(cursor)
           short == file[cursor + 1] = NL /\ mark = Len(file)
<1>1. stack # <<>> /\ UNCHANGED inputVars
  BY DEF EndParameters, At
<1>2. /\ cursor \in 0 .. Len(file) /\ cursor \in cursor .. Len(file)
      /\ Len(file) \in cursor .. Len(file)
      /\ cursor \in Nat /\ Len(file) \in Nat
  BY <1>1, StepSees
<1>3. CASE cursor = Len(file)
  <2>1. Return(cursor, Top.kids, TRUE)
    BY <1>3 DEF EndParameters
  <2> QED
    BY <1>1, <1>2, <2>1, NothingIsNew, ReturnKeeps
<1>4. CASE cursor # Len(file) /\ ~HasLine(cursor)
  <2>1. Fail(Len(file), "error")
    BY <1>4 DEF EndParameters
  <2> QED
    BY <1>1, <1>2, <2>1, FailKeeps
<1>5. CASE cursor # Len(file) /\ HasLine(cursor)
  <2>1. mark \in (cursor + 1) .. Len(file)
    BY <1>2, <1>5, LineIsRead DEF WalkInv
  <2>2. mark \in cursor .. Len(file) /\ mark \in Nat
    BY <1>2, <2>1
  <2>3. CASE short
    <3>1. Return(mark, Top.kids, TRUE)
      BY <1>5, <2>3 DEF EndParameters
    <3> QED
      BY <1>1, <2>2, <3>1, NothingIsNew, ReturnKeeps
  <2>4. CASE ~short /\ ~HasSize(mark)
    <3>1. Fail(mark, SizeFault(mark))
      BY <1>5, <2>4 DEF EndParameters
    <3>2. SizeFault(mark) \in {"error", "truncated"}
      BY DEF SizeFault
    <3> QED
      BY <1>1, <2>2, <3>1, <3>2, FailKeeps
  <2>5. CASE ~short /\ HasSize(mark) /\ Size(mark) # 0 /\ ~tolerant
    <3>1. Raise("error")
      BY <1>5, <2>5 DEF EndParameters
    <3> QED
      BY <1>1, <3>1, RaiseKeeps DEF Outcomes
  <2>6. CASE ~short /\ HasSize(mark) /\ ~(Size(mark) # 0 /\ ~tolerant)
    <3>1. Return(mark + 2, Top.kids, TRUE)
      BY <1>5, <2>6 DEF EndParameters
    <3>2. mark + 2 \in cursor .. Len(file)
      <4>1. mark + 2 <= Len(file)
        BY <2>2, <2>6, SizeIsRead DEF WalkInv
      <4> HIDE DEF mark
      <4> QED
        BY <1>2, <2>2, <4>1
    <3> QED
      BY <1>1, <3>1, <3>2, NothingIsNew, ReturnKeeps
  <2> QED
    BY <2>3, <2>4, <2>5, <2>6
<1> QED
  BY <1>3, <1>4, <1>5

\* Reading what announces the attachments keeps the invariant.
LEMMA BeginAttachmentsKeeps == WalkInv /\ BeginAttachments => WalkInv'
<1> SUFFICES ASSUME WalkInv, BeginAttachments PROVE WalkInv'
  OBVIOUS
<1>1. stack # <<>> /\ UNCHANGED inputVars
  BY DEF BeginAttachments, At
<1>2. /\ Top \in Frames /\ cursor \in 0 .. Len(file) /\ cursor \in cursor .. Len(file)
      /\ cursor \in Nat /\ Len(file) \in Nat
      /\ \A i \in 1 .. Len(file) : file[i] \in Nat
  BY <1>1, StepSees
<1>3. CASE cursor = Len(file)
  <2>1. Return(cursor, {}, TRUE)
    BY <1>3 DEF BeginAttachments
  <2> QED
    BY <1>1, <1>2, <2>1, NothingIsNew, ReturnKeeps
<1>4. CASE cursor # Len(file) /\ Size(cursor) # 2
  <2> DEFINE frame == [Top EXCEPT !.step = 3]
  <2>1. Continue(cursor + 1, frame)
    BY <1>4 DEF BeginAttachments
  <2>2. frame \in Frames /\ frame.kids = Top.kids /\ frame.start = Top.start
    BY <1>2 DEF Frames
  <2>3. cursor + 1 \in cursor .. Len(file) /\ cursor < cursor + 1
    BY <1>2, <1>4
  <2> HIDE DEF frame
  <2> QED
    BY <1>1, <2>1, <2>2, <2>3, GoOnKeeps
<1>5. CASE cursor # Len(file) /\ Size(cursor) = 2 /\ ~HasField(cursor)
  <2>1. FieldFault(cursor) \in {"error", "truncated"}
    BY DEF FieldFault, ObjectFault, SizeFault
  <2>2. FieldStranded(cursor) \in cursor .. Len(file)
    BY <1>2, <1>5, FieldIsLeft DEF WalkInv
  <2>3. Fail(FieldStranded(cursor), FieldFault(cursor))
    BY <1>5 DEF BeginAttachments
  <2> QED
    BY <1>1, <2>1, <2>2, <2>3, FailKeeps
<1>6. CASE cursor # Len(file) /\ Size(cursor) = 2 /\ HasField(cursor)
  <2>1. FieldEnd(cursor) \in (cursor + 2) .. Len(file) /\ cursor + 5 <= Len(file)
    BY <1>2, <1>6, FieldIsRead DEF WalkInv
  <2>2. FieldEnd(cursor) \in cursor .. Len(file) /\ cursor < FieldEnd(cursor)
    BY <1>2, <2>1
  <2>3. CASE file[cursor + 3] = AttachMark
    <3> DEFINE top == Stepped(Top)
               frame == [top EXCEPT !.n = file[cursor + 4]]
    <3>1. Continue(FieldEnd(cursor), frame)
      BY <1>6, <2>3 DEF BeginAttachments
    <3>2. top \in Frames /\ top.kids = Top.kids /\ top.start = Top.start
      BY <1>2 DEF Stepped, Frames
    <3>3. file[cursor + 4] \in Nat
      BY <1>2, <2>1
    <3> HIDE DEF top
    <3>4. frame \in Frames /\ frame.kids = Top.kids /\ frame.start = Top.start
      BY <3>2, <3>3 DEF Frames
    <3> HIDE DEF frame
    <3> QED
      BY <1>1, <2>2, <3>1, <3>4, GoOnKeeps
  <2>4. CASE file[cursor + 3] # AttachMark /\ tolerant
    <3> DEFINE frame == [Top EXCEPT !.step = 4]
    <3>1. Continue(FieldEnd(cursor), frame)
      BY <1>6, <2>4 DEF BeginAttachments
    <3>2. frame \in Frames /\ frame.kids = Top.kids /\ frame.start = Top.start
      BY <1>2 DEF Frames
    <3> HIDE DEF frame
    <3> QED
      BY <1>1, <2>2, <3>1, <3>2, GoOnKeeps
  <2>5. CASE file[cursor + 3] # AttachMark /\ ~tolerant
    <3>1. Raise("error")
      BY <1>6, <2>5 DEF BeginAttachments
    <3> QED
      BY <1>1, <3>1, RaiseKeeps DEF Outcomes
  <2> QED
    BY <2>3, <2>4, <2>5
<1> QED
  BY <1>3, <1>4, <1>5, <1>6

\* Noting an attachment that has been read, in a list that began before it, keeps the invariant.
LEMMA AttachmentKeeps ==
    ASSUME WalkInv, stack # <<>>, Top.step > 1, NEW c \in cursor .. Len(file), cursor < c,
           NEW frame, Continue(c, frame), UNCHANGED inputVars, NEW n \in Nat,
           frame = [Top EXCEPT !.n = n, !.kids = @ \cup {Element("attachment", cursor, c)}]
    PROVE  WalkInv'
<1> DEFINE new == {Element("attachment", cursor, c)}
<1>1. Top \in Frames /\ cursor \in Nat /\ c \in Nat
  BY StepSees
<1>2. IsNew(new, c)
  BY <1>1 DEF IsNew, Element, Elements
<1>3. new \subseteq Elements
  BY <1>2 DEF IsNew
<1> HIDE DEF new
<1>4. frame = [Top EXCEPT !.n = n, !.kids = @ \cup new]
  BY DEF new
<1>5. frame \in Frames /\ frame.kids = Top.kids \cup new /\ frame.start = Top.start
  BY <1>1, <1>3, <1>4 DEF Frames
<1>6. Top.start < c
  <2>1. Top.start < cursor
    BY TopIsFirst DEF WalkInv, InOrder
  <2>2. Top.start \in Nat
    BY <1>1 DEF Frames
  <2> QED
    BY <1>1, <2>1, <2>2
<1> QED
  BY <1>2, <1>5, <1>6, ContinueKeeps

\* Reading an attachment of the first group keeps the invariant.
LEMMA ReadAttachment1Keeps == WalkInv /\ ReadAttachment1 => WalkInv'
<1> SUFFICES ASSUME WalkInv, ReadAttachment1 PROVE WalkInv'
  OBVIOUS
<1> DEFINE data == cursor + HeaderCells + 1
           size == file[cursor + 3]
<1>1. stack # <<>> /\ UNCHANGED inputVars /\ Instruction(Top) = "attachments_1" /\ Top.n > 0
  BY DEF ReadAttachment1, At
<1>2. /\ Top \in Frames /\ cursor \in 0 .. Len(file)
      /\ cursor \in Nat /\ Len(file) \in Nat
      /\ \A i \in 1 .. Len(file) : file[i] \in Nat
  BY <1>1, StepSees
<1>3. Top.step > 1 /\ Top.n - 1 \in Nat
  <2>1. Top.n \in Nat
    BY <1>2 DEF Frames
  <2> QED
    BY <1>1, <1>2, <2>1, PastFirst
<1>4. HeaderCells \in Nat /\ HeaderCells = 3
  BY DEF HeaderCells
<1>5. CASE ~HasObject(cursor, HeaderCells)
  <2>1. Fail(Stranded(cursor, HeaderCells), ObjectFault(cursor, HeaderCells))
    BY <1>5 DEF ReadAttachment1
  <2>2. Stranded(cursor, HeaderCells) \in cursor .. Len(file)
    BY <1>2, <1>4, <1>5, ObjectIsLeft DEF WalkInv
  <2>3. ObjectFault(cursor, HeaderCells) \in {"error", "truncated"}
    BY DEF ObjectFault
  <2> QED
    BY <1>1, <2>1, <2>2, <2>3, FailKeeps
<1>6. CASE HasObject(cursor, HeaderCells)
  <2>1. data \in cursor .. Len(file) /\ data \in 0 .. Len(file) /\ cursor < data
    BY <1>2, <1>4, <1>6 DEF HasObject
  <2>2. size \in Nat
    BY <1>2, <1>4, <2>1
  <2>3. CASE ~HasObject(data, size)
    <3>1. Fail(Stranded(data, size), ObjectFault(data, size))
      BY <1>6, <2>3 DEF ReadAttachment1
    <3>2. Stranded(data, size) \in data .. Len(file)
      BY <2>1, <2>2, <2>3, ObjectIsLeft DEF WalkInv
    <3>3. ObjectFault(data, size) \in {"error", "truncated"}
      BY DEF ObjectFault
    <3> HIDE DEF data, size
    <3>4. Stranded(data, size) \in cursor .. Len(file)
      BY <1>2, <2>1, <3>2
    <3> QED
      BY <1>1, <3>1, <3>3, <3>4, FailKeeps
  <2>4. CASE HasObject(data, size)
    <3> DEFINE end == ObjectEnd(data, size)
               frame == [Top EXCEPT !.n = @ - 1,
                                    !.kids = @ \cup {Element("attachment", cursor, end)}]
    <3>1. Continue(end, frame)
      BY <1>6, <2>4 DEF ReadAttachment1
    <3>2. end \in data .. Len(file)
      BY <2>1, <2>2, <2>4, ObjectIsRead DEF WalkInv
    <3> HIDE DEF data, end
    <3>3. end \in cursor .. Len(file) /\ cursor < end
      BY <1>2, <2>1, <3>2
    <3>4. frame = [Top EXCEPT !.n = Top.n - 1,
                              !.kids = @ \cup {Element("attachment", cursor, end)}]
      OBVIOUS
    <3> HIDE DEF frame
    <3> QED
      BY <1>1, <1>3, <3>1, <3>3, <3>4, AttachmentKeeps
  <2> QED
    BY <2>3, <2>4
<1> QED
  BY <1>5, <1>6

\* Reading an attachment of the second group, or stopping there, keeps the invariant.
LEMMA ReadAttachment2Keeps == WalkInv /\ ReadAttachment2 => WalkInv'
<1> SUFFICES ASSUME WalkInv, ReadAttachment2 PROVE WalkInv'
  OBVIOUS
<1> DEFINE name    == cursor + HeaderCells
           payload == cursor + file[cursor + 1]
           end     == payload + file[cursor + 3]
           stop    == name > Len(file) \/ file[cursor + 1] < HeaderCells
<1>1. stack # <<>> /\ UNCHANGED inputVars /\ Instruction(Top) = "attachments_2"
  BY DEF ReadAttachment2, At
<1>2. /\ Top \in Frames /\ cursor \in cursor .. Len(file)
      /\ cursor \in Nat /\ Len(file) \in Nat
      /\ \A i \in 1 .. Len(file) : file[i] \in Nat
  BY <1>1, StepSees
<1>3. Top.step > 1
  BY <1>1, <1>2, PastFirst
<1>4. Stepped(Top) \in Frames /\ Stepped(Top).kids = Top.kids /\ Stepped(Top).start = Top.start
  BY <1>2 DEF Stepped, Frames
<1>5. CASE stop \/ (payload <= Len(file) /\ end > Len(file))
  <2>1. Continue(cursor, Stepped(Top))
    <3>1. CASE stop
      BY <3>1 DEF ReadAttachment2
    <3>2. CASE ~stop /\ payload <= Len(file) /\ end > Len(file)
      <4>1. ~(payload > Len(file))
        BY <1>2, <3>2 DEF HeaderCells
      <4> QED
        BY <3>2, <4>1 DEF ReadAttachment2
    <3> QED
      BY <1>5, <3>1, <3>2
  <2> QED
    BY <1>1, <1>2, <1>3, <1>4, <2>1, GoOnKeeps
<1>6. CASE ~stop /\ payload > Len(file)
  <2>1. Continue(name, Stepped(Top))
    BY <1>6 DEF ReadAttachment2
  <2>2. name \in cursor .. Len(file) /\ cursor < name
    BY <1>2, <1>6 DEF HeaderCells
  <2> QED
    BY <1>1, <1>4, <2>1, <2>2, GoOnKeeps
<1>7. CASE ~stop /\ ~(payload > Len(file)) /\ ~(end > Len(file))
  <2> DEFINE frame == [Top EXCEPT !.kids = @ \cup {Element("attachment", cursor, end)}]
  <2>1. Continue(end, frame)
    BY <1>7 DEF ReadAttachment2
  <2>2. file[cursor + 1] \in Nat /\ file[cursor + 3] \in Nat /\ file[cursor + 1] >= 3
    BY <1>2, <1>7 DEF HeaderCells
  <2>3. end \in cursor .. Len(file) /\ cursor < end
    BY <1>2, <1>7, <2>2
  <2> HIDE DEF end
  <2>4. Top.n \in Nat /\ frame = [Top EXCEPT !.n = Top.n,
                                  !.kids = @ \cup {Element("attachment", cursor, end)}]
    BY <1>2 DEF Frames
  <2> HIDE DEF frame
  <2> QED
    BY <1>1, <1>3, <2>1, <2>3, <2>4, AttachmentKeeps
<1>8. ~stop => payload \in Nat
  BY <1>2 DEF HeaderCells
<1> QED
  BY <1>2, <1>5, <1>6, <1>7, <1>8

----------------------------------------------------------------------------
\* A file that is damaged is a file.
LEMMA DamagedIsFile ==
    ASSUME NEW cells \in Seq(Nat), NEW f \in Damaged(cells)
    PROVE  f \in Seq(Nat)
<1>1. CASE f = cells
  BY <1>1
<1>2. CASE \E k \in 0 .. (Len(cells) - 1) : f = SubSeq(cells, 1, k)
  <2>1. PICK k \in 0 .. (Len(cells) - 1) : f = SubSeq(cells, 1, k)
    BY <1>2
  <2>2. Len(cells) \in Nat
    BY LenProperties
  <2>3. \A i \in 1 .. k : cells[i] \in Nat
    BY <2>1, <2>2, ElementOfSeq
  <2> QED
    BY <2>1, <2>2, <2>3, SubSeqProperties
<1>3. CASE \E i \in DOMAIN cells, v \in Cells : f = [cells EXCEPT ![i] = v]
  <2>1. PICK i \in DOMAIN cells, v \in Cells : f = [cells EXCEPT ![i] = v]
    BY <1>3
  <2>2. i \in 1 .. Len(cells) /\ v \in Nat
    BY <2>1, LenProperties, CellsAssumption
  <2> QED
    BY <2>1, <2>2, ExceptSeq
<1> QED
  BY <1>1, <1>2, <1>3 DEF Damaged

\* The invariant holds of a file to walk.
LEMMA InitHolds == Init => WalkInv
<1> SUFFICES ASSUME Init PROVE WalkInv
  OBVIOUS
<1>1. file \in Seq(Nat) /\ Len(file) \in Nat
  BY DamagedIsFile, LenProperties, CellsAssumption DEF Init
<1>2. stack \in Seq(Frames) /\ Len(stack) = 0 /\ DOMAIN stack = {} /\ found = {}
  BY DEF Init
<1>3. TypeInv
  <2>1. strict = [outcome |-> "none", elements |-> {}]
    BY DEF Init
  <2>2. strict \in [outcome : Outcomes \cup {"none"}, elements : SUBSET Elements]
    BY <2>1
  <2>3. cursor \in 0 .. Len(file) /\ section \in 0 .. Len(Sections)
    BY <1>1 DEF Init, Sections
  <2> QED
    BY <1>1, <1>2, <2>2, <2>3 DEF Init, TypeInv, Outcomes
<1>4. Noted = {}
  BY <1>2 DEF Noted
<1>5. Placed /\ Nested /\ InOrder /\ NoneStraddles /\ CallersWait
  BY <1>1, <1>2, <1>4 DEF Init, Placed, Nested, InOrder, NoneStraddles, CallersWait
<1> QED
  BY <1>3, <1>5 DEF WalkInv

\* Every step keeps the invariant.
LEMMA NextKeeps == WalkInv /\ [Next]_vars => WalkInv'
<1> SUFFICES ASSUME WalkInv, [Next]_vars PROVE WalkInv'
  OBVIOUS
<1>1. CASE Next
  BY <1>1, BeginSectionKeeps, CompleteKeeps, EndListKeeps, ReadFieldKeeps, CallsKeep, MarksKeep,
     EmitKeeps, ReadParameterKeeps, EndParametersKeeps, BeginAttachmentsKeeps,
     ReadAttachment1Keeps, ReadAttachment2Keeps, WalkAgainKeeps DEF Next, Step
<1>2. CASE UNCHANGED vars
  <2>1. UNCHANGED <<project, file, tolerant, cursor, section, stack, found, outcome, strict>>
    BY <1>2 DEF vars
  <2>2. Noted' = Noted
    BY <2>1 DEF Noted
  <2>3. TypeInv'
    BY <2>1 DEF WalkInv, TypeInv
  <2>4. Placed' /\ Nested' /\ NoneStraddles'
    BY <2>1, <2>2 DEF WalkInv, Placed, Nested, NoneStraddles, Disjoint, Inside
  <2>5. InOrder' /\ CallersWait'
    BY <2>1 DEF WalkInv, InOrder, CallersWait, IsWaiting, Instruction, AtEnd
  <2> QED
    BY <2>3, <2>4, <2>5 DEF WalkInv
<1> QED
  BY <1>1, <1>2

\* The cursor stays within the file and every call in progress is at a part of
\* its record, for files of any length and content (OpjStream, walk_opj_file).
THEOREM Typed == Spec => []TypeInv
<1>1. WalkInv => TypeInv
  BY DEF WalkInv
<1> QED
  BY <1>1, InitHolds, NextKeeps, PTL DEF Spec

\* No range of OpjWalkElement, in a strict or a tolerant walk of any file, is
\* empty or reaches past the bytes the walk has read.
THEOREM RangesArePlaced == Spec => []Placed
<1>1. WalkInv => Placed
  BY DEF WalkInv
<1> QED
  BY <1>1, InitHolds, NextKeeps, PTL DEF Spec

\* No two ranges overlap unless one record is part of the other, wherever a
\* failed read has left the cursor of a tolerant walk.
THEOREM RangesNest == Spec => []Nested
<1>1. WalkInv => Nested
  BY DEF WalkInv
<1> QED
  BY <1>1, InitHolds, NextKeeps, PTL DEF Spec

============================================================================
