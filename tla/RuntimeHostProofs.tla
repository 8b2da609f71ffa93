-------------------------- MODULE RuntimeHostProofs --------------------------
(***************************************************************************)
(* One value per key, for any goroutines, keys and nesting of factories.   *)
(* The argument: an entry that is not ready belongs to one factory call,   *)
(* somewhere on the stack of one goroutine, and is the table's entry of    *)
(* its key until that call returns or unwinds.                             *)
(***************************************************************************)
EXTENDS RuntimeHost, TLAPS, SequenceTheorems

\* Only the innermost call of a goroutine is not in its factory; one that unwinds
\* is in a factory.
Nested ==
  \A c \in Callers :
    /\ \A i \in 2..Len(stack[c]) : stack[c][i].at = "factory"
    /\ c \in panics => stack[c] # <<>> /\ stack[c][1].at = "factory"

\* The entry of a factory that panicked, which the table has lost.
Gone(e) == entries[e] = [ready |-> TRUE, value |-> 0] /\ \A k \in Keys : table[k] # e

\* A factory's entry is in the table and not ready; an entry that is waited for is in
\* the table or gone.
Held(f) ==
  /\ f.at = "factory" => table[f.key] = f.entry /\ ~entries[f.entry].ready
  /\ f.at = "wait" => table[f.key] = f.entry \/ Gone(f.entry)
HeldInv == \A c \in Callers : \A i \in 1..Len(stack[c]) : Held(stack[c][i])

\* No two calls make the same entry.
OneMaker ==
  \A c, d \in Callers : \A i \in 1..Len(stack[c]), j \in 1..Len(stack[d]) :
    /\ stack[c][i].at = "factory" /\ stack[d][j].at = "factory"
    /\ stack[c][i].entry = stack[d][j].entry
    => c = d /\ i = j

\* Entries in the table are of one key each, and have their value when they are ready.
TableInv ==
  \A k \in Keys : table[k] # 0 =>
    /\ entries[table[k]].value = IF entries[table[k]].ready THEN table[k] ELSE 0
    /\ \A l \in Keys : table[l] = table[k] => l = k

MadeInv ==
  \A k \in Keys : made[k] = IF table[k] # 0 /\ entries[table[k]].ready THEN 1 ELSE 0

ReturnedInv ==
  \A k \in Keys :
    /\ \A v \in returned[k] \ {0} :
         table[k] # 0 /\ entries[table[k]] = [ready |-> TRUE, value |-> v]
    /\ 0 \in returned[k] => \E e \in 1..Len(entries) : Gone(e)

IInv == TypeOK /\ Nested /\ HeldInv /\ OneMaker /\ TableInv /\ MadeInv /\ ReturnedInv

-----------------------------------------------------------------------------
(* What the operations on stacks do.                                       *)

\* A call with the uses of its factory is a frame.
LEMMA CallFrame ==
  ASSUME NEW at \in {"lock", "wait", "factory"}, NEW k \in Keys, NEW e \in Nat
  PROVE  /\ Call(at, k, e) \in Frame
         /\ Call(at, k, e).at = at /\ Call(at, k, e).key = k /\ Call(at, k, e).entry = e
BY DEF Call, Frame

\* What is below the top of a stack.
LEMMA BelowTop ==
  ASSUME NEW s \in Seq(Frame), s # <<>>
  PROVE  /\ Tail(s) \in Seq(Frame) /\ Len(Tail(s)) = Len(s) - 1
         /\ Len(s) \in Nat /\ Len(s) >= 1
         /\ \A i \in 1..Len(s) - 1 : Tail(s)[i] = s[i + 1]
         /\ Head(s) = s[1] /\ s[1] \in Frame
BY HeadTailProperties, LenProperties, EmptySeq

\* The first call of a goroutine.
LEMMA PushFacts ==
  ASSUME TypeOK, NEW c \in Callers, NEW f \in Frame, stack[c] = <<>>, Push(c, f)
  PROVE  /\ stack' \in [Callers -> Seq(Frame)]
         /\ \A d \in Callers : d # c => stack'[d] = stack[d]
         /\ Len(stack'[c]) = 1 /\ stack'[c][1] = f
<1>1. stack'[c] = <<f>> \o <<>>
  BY DEF Push, TypeOK
<1>2. <<f>> \in Seq(Frame) /\ Len(<<f>>) = 1 /\ <<f>>[1] = f
  OBVIOUS
<1>3. stack'[c] = <<f>>
  BY <1>1, <1>2, ConcatEmptySeq
<1> QED BY <1>2, <1>3 DEF Push, TypeOK

\* The innermost call goes on.
LEMMA TopFacts ==
  ASSUME TypeOK, NEW c \in Callers, NEW f \in Frame, stack[c] # <<>>, Top(c, f)
  PROVE  /\ stack' \in [Callers -> Seq(Frame)]
         /\ \A d \in Callers : d # c => stack'[d] = stack[d]
         /\ Len(stack'[c]) = Len(stack[c]) /\ stack'[c][1] = f
         /\ \A i \in 2..Len(stack[c]) : stack'[c][i] = stack[c][i]
<1> DEFINE s == stack[c]
<1>1. s \in Seq(Frame) /\ stack'[c] = <<f>> \o Tail(s)
  BY DEF Top, TypeOK
<1>2. <<f>> \in Seq(Frame) /\ Len(<<f>>) = 1 /\ <<f>>[1] = f
  OBVIOUS
<1>3. /\ Tail(s) \in Seq(Frame) /\ Len(Tail(s)) = Len(s) - 1 /\ Len(s) \in Nat /\ Len(s) >= 1
      /\ \A i \in 1..Len(s) - 1 : Tail(s)[i] = s[i + 1]
  BY <1>1, BelowTop
<1>4. /\ stack'[c] \in Seq(Frame) /\ Len(stack'[c]) = Len(s)
      /\ \A i \in 1..Len(s) : stack'[c][i] = IF i <= 1 THEN <<f>>[i] ELSE Tail(s)[i - 1]
  <2> HIDE DEF s
  <2> QED BY <1>1, <1>2, <1>3, ConcatProperties
<1>5. \A i \in 2..Len(s) : stack'[c][i] = s[i]
  <2> HIDE DEF s
  <2> QED BY <1>3, <1>4
<1> QED BY <1>2, <1>3, <1>4, <1>5 DEF Top, TypeOK

\* The innermost call ends.
LEMMA PopFacts ==
  ASSUME TypeOK, NEW c \in Callers, stack[c] # <<>>, Pop(c)
  PROVE  /\ stack' \in [Callers -> Seq(Frame)]
         /\ \A d \in Callers : d # c => stack'[d] = stack[d]
         /\ Len(stack'[c]) = Len(stack[c]) - 1 /\ Len(stack[c]) \in Nat /\ Len(stack[c]) >= 1
         /\ \A i \in 1..Len(stack[c]) - 1 : stack'[c][i] = stack[c][i + 1]
<1>1. stack[c] \in Seq(Frame) /\ stack'[c] = Tail(stack[c])
  BY DEF Pop, TypeOK
<1> QED BY <1>1, BelowTop DEF Pop, TypeOK

\* A factory calls GetOrCreate.
LEMMA NestFacts ==
  ASSUME TypeOK, NEW c \in Callers, NEW f \in Frame, NEW g \in Frame, stack[c] # <<>>,
         stack' = [stack EXCEPT ![c] = <<f, g>> \o Tail(@)]
  PROVE  /\ stack' \in [Callers -> Seq(Frame)]
         /\ \A d \in Callers : d # c => stack'[d] = stack[d]
         /\ Len(stack'[c]) = Len(stack[c]) + 1 /\ Len(stack[c]) \in Nat /\ Len(stack[c]) >= 1
         /\ stack'[c][1] = f /\ stack'[c][2] = g
         /\ \A i \in 3..Len(stack[c]) + 1 : stack'[c][i] = stack[c][i - 1]
<1> DEFINE s == stack[c]
<1>1. s \in Seq(Frame) /\ stack'[c] = <<f, g>> \o Tail(s)
  BY DEF TypeOK
<1>2. /\ <<f, g>> \in Seq(Frame) /\ Len(<<f, g>>) = 2 /\ <<f, g>>[1] = f /\ <<f, g>>[2] = g
  OBVIOUS
<1>3. /\ Tail(s) \in Seq(Frame) /\ Len(Tail(s)) = Len(s) - 1 /\ Len(s) \in Nat /\ Len(s) >= 1
      /\ \A i \in 1..Len(s) - 1 : Tail(s)[i] = s[i + 1]
  BY <1>1, BelowTop
<1>4. /\ stack'[c] \in Seq(Frame) /\ Len(stack'[c]) = Len(s) + 1
      /\ \A i \in 1..Len(s) + 1 : stack'[c][i] = IF i <= 2 THEN <<f, g>>[i] ELSE Tail(s)[i - 2]
  <2> DEFINE p == <<f, g>>
             t == Tail(s)
  <2>1. p \in Seq(Frame) /\ t \in Seq(Frame) /\ Len(p) = 2 /\ Len(t) = Len(s) - 1
    BY <1>2, <1>3
  <2> HIDE DEF p, t, s
  <2>2. /\ p \o t \in Seq(Frame) /\ Len(p \o t) = 2 + Len(t)
        /\ \A i \in 1..2 + Len(t) : (p \o t)[i] = IF i <= 2 THEN p[i] ELSE t[i - 2]
    <3>1. /\ p \o t \in Seq(Frame) /\ Len(p \o t) = Len(p) + Len(t)
          /\ \A i \in 1..Len(p) + Len(t) :
               (p \o t)[i] = IF i <= Len(p) THEN p[i] ELSE t[i - Len(p)]
      BY <2>1, ConcatProperties, Zenon
    <3> QED BY <2>1, <3>1
  <2>3. 2 + Len(t) = Len(s) + 1
    BY <2>1, <1>3
  <2>4. stack'[c] = p \o t
    BY <1>1 DEF p, t
  <2> QED BY <2>2, <2>3, <2>4 DEF p, t
<1>5. \A i \in 3..Len(s) + 1 : stack'[c][i] = s[i - 1]
  <2> HIDE DEF s
  <2>1. SUFFICES ASSUME NEW i \in 3..Len(s) + 1 PROVE stack'[c][i] = s[i - 1]
    OBVIOUS
  <2>2. i - 2 \in 1..Len(s) - 1 /\ (i - 2) + 1 = i - 1
    BY <1>3
  <2> QED BY <1>3, <1>4, <2>2
<1> QED BY <1>2, <1>3, <1>4, <1>5 DEF TypeOK

-----------------------------------------------------------------------------
(* What a step of one goroutine keeps, whichever it is.                    *)

\* A step of c: its calls move by off places and keep what they hold, except for a
\* new innermost call (off <= 0).
Same(f, g) == f.at = g.at /\ f.key = g.key /\ f.entry = g.entry
Moves(c, off) ==
  /\ stack' \in [Callers -> Seq(Frame)]
  /\ \A d \in Callers : d # c => stack'[d] = stack[d]
  /\ \A i \in 1..Len(stack'[c]) :
       \/ i = 1 /\ off <= 0
       \/ i + off \in 1..Len(stack[c]) /\ Same(stack'[c][i], stack[c][i + off])

\* What TypeOK says of calls.
Typed(f) == f.at # "lock" => f.entry \in 1..Len(entries)

\* Calls keep an entry in range.
LEMMA TypedMoves ==
  ASSUME TypeOK, NEW c \in Callers, NEW off \in {-1, 0, 1}, Moves(c, off),
         off <= 0 => Typed(stack[c][1])',
         \A e \in 1..Len(entries) : e \in 1..Len(entries')
  PROVE  \A d \in Callers : \A i \in 1..Len(stack'[d]) :
           stack'[d][i].at # "lock" => stack'[d][i].entry \in 1..Len(entries')
<1> SUFFICES ASSUME NEW d \in Callers, NEW i \in 1..Len(stack'[d]), stack'[d][i].at # "lock"
             PROVE  stack'[d][i].entry \in 1..Len(entries')
  OBVIOUS
<1>1. \A j \in 1..Len(stack[d]) :
        stack[d][j].at # "lock" => stack[d][j].entry \in 1..Len(entries)
  BY DEF TypeOK
<1>2. CASE d # c
  <2>1. stack'[d] = stack[d]
    BY <1>2 DEF Moves
  <2> QED BY <2>1, <1>1
<1>3. CASE d = c /\ i = 1 /\ off <= 0
  BY <1>3 DEF Typed
<1>4. CASE d = c /\ ~(i = 1 /\ off <= 0)
  <2>1. i + off \in 1..Len(stack[c]) /\ Same(stack'[c][i], stack[c][i + off])
    BY <1>4 DEF Moves
  <2> QED BY <2>1, <1>1, <1>4 DEF Same
<1> QED BY <1>2, <1>3, <1>4

\* Below the innermost call there are only factories.
LEMMA NestedMoves ==
  ASSUME Nested, NEW c \in Callers, NEW off \in {-1, 0, 1}, Moves(c, off),
         Len(stack'[c]) \in Nat,
         off = -1 => stack[c][1].at = "factory",
         \A d \in Callers : d # c /\ d \in panics' => d \in panics,
         c \in panics' => stack'[c] # <<>> /\ stack'[c][1].at = "factory"
  PROVE  Nested'
<1> SUFFICES ASSUME NEW d \in Callers
             PROVE  /\ \A i \in 2..Len(stack'[d]) : stack'[d][i].at = "factory"
                    /\ d \in panics' => stack'[d] # <<>> /\ stack'[d][1].at = "factory"
  BY DEF Nested
<1>1. CASE d # c
  <2>1. stack'[d] = stack[d]
    BY <1>1 DEF Moves
  <2> QED BY <2>1, <1>1 DEF Nested
<1>2. CASE d = c
  <2> SUFFICES ASSUME NEW i \in 2..Len(stack'[c]) PROVE stack'[c][i].at = "factory"
    BY <1>2
  <2>1. i \in 1..Len(stack'[c]) /\ i # 1
    OBVIOUS
  <2>2. i + off \in 1..Len(stack[c]) /\ stack'[c][i].at = stack[c][i + off].at
    BY <2>1 DEF Moves, Same
  <2>3. (off = -1 /\ i + off = 1) \/ i + off \in 2..Len(stack[c])
    BY <2>1, <2>2
  <2> QED BY <2>2, <2>3 DEF Nested
<1> QED BY <1>1, <1>2

\* No two calls make the same entry; a new maker's entry is new.
LEMMA MakersMove ==
  ASSUME TypeOK, OneMaker, NEW c \in Callers, NEW off \in {-1, 0, 1}, Moves(c, off),
         Len(stack'[c]) \in Nat,
         off <= 0 /\ stack'[c][1].at = "factory" => stack'[c][1].entry \notin 1..Len(entries)
  PROVE  OneMaker'
<1> SUFFICES ASSUME NEW d1 \in Callers, NEW d2 \in Callers,
                    NEW i1 \in 1..Len(stack'[d1]), NEW i2 \in 1..Len(stack'[d2]),
                    stack'[d1][i1].at = "factory", stack'[d2][i2].at = "factory",
                    stack'[d1][i1].entry = stack'[d2][i2].entry
             PROVE  d1 = d2 /\ i1 = i2
  BY DEF OneMaker
\* Where a call that is not new was before.
<1> DEFINE Was(d, i) == IF d = c THEN i + off ELSE i
           New(d, i) == d = c /\ i = 1 /\ off <= 0
<1>1. ASSUME NEW d \in Callers, NEW i \in 1..Len(stack'[d]), ~New(d, i),
             stack'[d][i].at = "factory"
      PROVE  /\ Was(d, i) \in 1..Len(stack[d])
             /\ stack[d][Was(d, i)].at = "factory"
             /\ stack[d][Was(d, i)].entry = stack'[d][i].entry
             /\ stack'[d][i].entry \in 1..Len(entries)
  <2>1. CASE d # c
    <3>1. stack'[d] = stack[d]
      BY <2>1 DEF Moves
    <3> QED BY <3>1, <2>1, <1>1 DEF TypeOK
  <2>2. CASE d = c
    <3>1. i + off \in 1..Len(stack[c]) /\ Same(stack'[c][i], stack[c][i + off])
      BY <2>2, <1>1 DEF Moves
    <3>2. stack[c][i + off].at = "factory" /\ stack[c][i + off].entry = stack'[c][i].entry
      BY <3>1, <2>2, <1>1 DEF Same
    <3>3. stack[c][i + off].entry \in 1..Len(entries)
      BY <3>1, <3>2 DEF TypeOK
    <3> QED BY <3>1, <3>2, <3>3, <2>2
  <2> QED BY <2>1, <2>2
<1>2. ASSUME NEW d \in Callers, NEW i \in 1..Len(stack'[d]), New(d, i),
             stack'[d][i].at = "factory"
      PROVE  stack'[d][i].entry \notin 1..Len(entries)
  BY <1>2
<1>3. CASE New(d1, i1) /\ New(d2, i2)
  BY <1>3
<1>4. CASE New(d1, i1) /\ ~New(d2, i2)
  BY <1>4, <1>1, <1>2
<1>5. CASE ~New(d1, i1) /\ New(d2, i2)
  BY <1>5, <1>1, <1>2
<1>6. CASE ~New(d1, i1) /\ ~New(d2, i2)
  <2> DEFINE w1 == Was(d1, i1)
             w2 == Was(d2, i2)
  <2>1. /\ w1 \in 1..Len(stack[d1]) /\ stack[d1][w1].at = "factory"
        /\ stack[d1][w1].entry = stack'[d1][i1].entry
    BY <1>6, <1>1
  <2>2. /\ w2 \in 1..Len(stack[d2]) /\ stack[d2][w2].at = "factory"
        /\ stack[d2][w2].entry = stack'[d2][i2].entry
    BY <1>6, <1>1
  <2>3. d1 = d2 /\ w1 = w2
    <3> HIDE DEF w1, w2
    <3> QED BY <2>1, <2>2 DEF OneMaker
  <2> QED BY <2>3
<1> QED BY <1>3, <1>4, <1>5, <1>6

\* What is held stays held, if the step does so for every call but the one that ends.
LEMMA HeldMoves ==
  ASSUME TypeOK, OneMaker, HeldInv, NEW c \in Callers, NEW off \in {-1, 0, 1}, Moves(c, off),
         Len(stack'[c]) \in Nat, 1 \in 1..Len(stack[c]) \/ off # 1,
         off <= 0 => Held(stack[c][1])',
         \A f \in Frame :
           /\ Held(f) /\ Typed(f)
           /\ off = 1 /\ f.at = "factory" /\ stack[c][1].at = "factory"
                => f.entry # stack[c][1].entry
           => Held(f)'
  PROVE  HeldInv'
<1> SUFFICES ASSUME NEW d \in Callers, NEW i \in 1..Len(stack'[d])
             PROVE  Held(stack[d][i])'
  BY DEF HeldInv
<1>1. ASSUME NEW j \in 1..Len(stack[d]), ~(off = 1 /\ d = c /\ j = 1)
      PROVE  Held(stack[d][j]) /\ Typed(stack[d][j]) /\ stack[d][j] \in Frame
             /\ (off = 1 /\ stack[d][j].at = "factory" /\ stack[c][1].at = "factory"
                   => stack[d][j].entry # stack[c][1].entry)
  <2>1. Held(stack[d][j])
    BY DEF HeldInv
  <2>2. Typed(stack[d][j]) /\ stack[d][j] \in Frame
    BY ElementOfSeq DEF TypeOK, Typed
  <2>3. off = 1 /\ stack[d][j].at = "factory" /\ stack[c][1].at = "factory"
          => stack[d][j].entry # stack[c][1].entry
    BY <1>1 DEF OneMaker
  <2> QED BY <2>1, <2>2, <2>3
<1>2. CASE d # c
  <2>1. stack'[d] = stack[d]
    BY <1>2 DEF Moves
  <2>2. \A f \in Frame : f = stack[d][i] => Held(f)'
    BY <2>1, <1>1, <1>2
  <2>3. stack[d][i] \in Frame
    BY <2>1, <1>1, <1>2
  <2> QED BY <2>1, <2>2, <2>3 DEF Held
<1>3. CASE d = c /\ i = 1 /\ off <= 0
  BY <1>3
<1>4. CASE d = c /\ ~(i = 1 /\ off <= 0)
  <2>1. i + off \in 1..Len(stack[c]) /\ Same(stack'[c][i], stack[c][i + off])
    BY <1>4 DEF Moves
  <2>2. ~(off = 1 /\ i + off = 1)
    BY <1>4
  <2>3. \A f \in Frame : f = stack[c][i + off] => Held(f)'
    BY <2>1, <2>2, <1>1, <1>4
  <2>4. stack[c][i + off] \in Frame
    BY <2>1, <2>2, <1>1, <1>4
  <2> QED BY <1>4, <2>1, <2>3, <2>4 DEF Held, Same
<1> QED BY <1>2, <1>3, <1>4

-----------------------------------------------------------------------------
(* The invariant holds at first, and every step keeps it.                  *)

\* Init establishes the invariant: the table is empty and nobody is in a call.
LEMMA InitIInv == Init => IInv
<1> SUFFICES ASSUME Init PROVE IInv
  OBVIOUS
<1>1. \A c \in Callers : stack[c] = <<>> /\ Len(stack[c]) = 0
  BY DEF Init
<1>2. TypeOK
  <2>1. Len(entries) = 0
    BY DEF Init
  <2>2. /\ attached \in BOOLEAN /\ panics \subseteq Callers
        /\ made \in [Keys -> Nat] /\ returned \in [Keys -> SUBSET Nat]
    BY DEF Init
  <2>3. /\ entries \in Seq([ready : BOOLEAN, value : Nat]) /\ table \in [Keys -> 0..Len(entries)]
        /\ stack \in [Callers -> Seq(Frame)]
    BY <2>1 DEF Init
  <2> QED BY <1>1, <2>2, <2>3 DEF TypeOK
<1>3. Nested /\ HeldInv /\ OneMaker
  BY <1>1 DEF Init, Nested, HeldInv, OneMaker
<1>4. TableInv /\ MadeInv /\ ReturnedInv
  BY DEF Init, TableInv, MadeInv, ReturnedInv
<1> QED BY <1>2, <1>3, <1>4 DEF IInv

\* A step that changes stacks only, and adds no factory.
LEMMA StackStep ==
  ASSUME IInv, NEW c \in Callers, NEW off \in {-1, 0}, Moves(c, off),
         UNCHANGED <<table, entries, panics, made, returned>>, attached' \in BOOLEAN,
         c \notin panics,
         off = -1 => stack[c][1].at = "factory",
         stack'[c][1].at # "factory", Typed(stack[c][1])', Held(stack[c][1])'
  PROVE  IInv'
<1>0. TypeOK /\ Nested /\ HeldInv /\ OneMaker /\ Len(stack'[c]) \in Nat
  BY LenProperties DEF IInv, Moves
<1>1. \A d \in Callers : \A i \in 1..Len(stack'[d]) :
        stack'[d][i].at # "lock" => stack'[d][i].entry \in 1..Len(entries')
  BY <1>0, TypedMoves
<1>2. TypeOK'
  BY <1>0, <1>1 DEF TypeOK, Moves
<1>3. Nested'
  BY <1>0, NestedMoves
<1>4. HeldInv'
  <2>1. \A f \in Frame : Held(f) => Held(f)'
    BY DEF Held, Gone
  <2> QED BY <1>0, <2>1, HeldMoves
<1>5. OneMaker'
  BY <1>0, MakersMove
<1>6. TableInv' /\ MadeInv' /\ ReturnedInv'
  BY DEF IInv, TableInv, MadeInv, ReturnedInv, Gone
<1> QED BY <1>2, <1>3, <1>4, <1>5, <1>6 DEF IInv

\* GetOrCreate from outside: one call, before the lock.
LEMMA GetOrCreateKeeps ==
  ASSUME IInv, NEW c \in Callers, NEW k \in Keys, GetOrCreate(c, k)
  PROVE  IInv'
<1> DEFINE f == Call("lock", k, 0)
<1>1. f \in Frame /\ f.at = "lock"
  BY CallFrame
<1> HIDE DEF f
<1>2. /\ stack' \in [Callers -> Seq(Frame)]
      /\ \A d \in Callers : d # c => stack'[d] = stack[d]
      /\ Len(stack'[c]) = 1 /\ stack'[c][1] = f
  BY <1>1, PushFacts DEF GetOrCreate, IInv, f
<1>3. UNCHANGED <<table, entries, panics, made, returned>> /\ attached' \in BOOLEAN
  BY DEF GetOrCreate
<1>4. Moves(c, 0)
  BY <1>2 DEF Moves
<1>5. c \notin panics
  BY DEF GetOrCreate, IInv, Nested
<1>6. Typed(stack[c][1])' /\ Held(stack[c][1])' /\ stack'[c][1].at # "factory"
  BY <1>1, <1>2 DEF Typed, Held
<1> QED BY <1>3, <1>4, <1>5, <1>6, StackStep

\* Load: one call, waiting for the table's entry.
LEMMA LoadKeeps ==
  ASSUME IInv, NEW c \in Callers, NEW k \in Keys, Load(c, k)
  PROVE  IInv'
<1> DEFINE f == Call("wait", k, table[k])
<1>0. table[k] \in 1..Len(entries) /\ Len(entries) \in Nat
  BY LenProperties DEF Load, IInv, TypeOK
<1>1. f \in Frame /\ f.at = "wait" /\ f.key = k /\ f.entry = table[k]
  BY <1>0, CallFrame
<1> HIDE DEF f
<1>2. /\ stack' \in [Callers -> Seq(Frame)]
      /\ \A d \in Callers : d # c => stack'[d] = stack[d]
      /\ Len(stack'[c]) = 1 /\ stack'[c][1] = f
  BY <1>1, PushFacts DEF Load, IInv, f
<1>3. UNCHANGED <<attached, table, entries, panics, made, returned>> /\ attached' \in BOOLEAN
  BY DEF Load, IInv, TypeOK
<1>4. Moves(c, 0)
  BY <1>2 DEF Moves
<1>5. c \notin panics
  BY DEF Load, IInv, Nested
<1>6. Typed(stack[c][1])' /\ Held(stack[c][1])' /\ stack'[c][1].at # "factory"
  BY <1>0, <1>1, <1>2, <1>3 DEF Typed, Held
<1> QED BY <1>3, <1>4, <1>5, <1>6, StackStep

\* A factory calls GetOrCreate: its own call stays, with one use less, below a call
\* that is before the lock.
LEMMA FactoryCallsKeeps ==
  ASSUME IInv, NEW c \in Callers, stack[c] # <<>>, c \notin panics, FactoryCalls(c)
  PROVE  IInv'
<1> DEFINE s == Head(stack[c])
<1>1. s = stack[c][1] /\ s \in Frame /\ s.at = "factory"
  <2>1. stack[c] \in Seq(Frame)
    BY DEF IInv, TypeOK
  <2> QED BY <2>1, BelowTop DEF FactoryCalls
<1>2. PICK l \in s.todo :
        stack' = [stack EXCEPT ![c] =
                    <<Call("lock", l, 0), [s EXCEPT !.todo = @ \ {l}]>> \o Tail(@)]
  BY DEF FactoryCalls
<1> DEFINE f == Call("lock", l, 0)
           g == [s EXCEPT !.todo = @ \ {l}]
<1>3. f \in Frame /\ f.at = "lock"
  BY <1>1, CallFrame DEF Frame
<1>4. g \in Frame /\ Same(g, s)
  BY <1>1 DEF Frame, Same
<1>5. stack' = [stack EXCEPT ![c] = <<f, g>> \o Tail(@)]
  BY <1>2
<1> HIDE DEF f, g, s
<1>6. /\ stack' \in [Callers -> Seq(Frame)]
      /\ \A d \in Callers : d # c => stack'[d] = stack[d]
      /\ Len(stack'[c]) = Len(stack[c]) + 1 /\ Len(stack[c]) \in Nat /\ Len(stack[c]) >= 1
      /\ stack'[c][1] = f /\ stack'[c][2] = g
      /\ \A i \in 3..Len(stack[c]) + 1 : stack'[c][i] = stack[c][i - 1]
  BY <1>3, <1>4, <1>5, NestFacts DEF IInv
<1>7. UNCHANGED <<attached, table, entries, panics, made, returned>> /\ attached' \in BOOLEAN
  BY DEF FactoryCalls, IInv, TypeOK
<1>8. Moves(c, -1)
  <2> SUFFICES ASSUME NEW i \in 1..Len(stack'[c]), i # 1
               PROVE  i + (-1) \in 1..Len(stack[c]) /\ Same(stack'[c][i], stack[c][i + (-1)])
    BY <1>6 DEF Moves
  <2>1. i + (-1) \in 1..Len(stack[c]) /\ i + (-1) = i - 1
    BY <1>6
  <2>2. CASE i = 2
    BY <2>1, <2>2, <1>1, <1>4, <1>6
  <2>3. CASE i # 2
    BY <2>1, <2>3, <1>6 DEF Same
  <2> QED BY <2>2, <2>3
<1>9. Typed(stack[c][1])' /\ Held(stack[c][1])' /\ stack'[c][1].at # "factory"
  BY <1>3, <1>6 DEF Typed, Held
<1> QED BY <1>1, <1>7, <1>8, <1>9, StackStep

\* A factory panics.
LEMMA FactoryPanicsKeeps ==
  ASSUME IInv, NEW c \in Callers, stack[c] # <<>>, FactoryPanics(c)
  PROVE  IInv'
<1>1. stack[c][1].at = "factory"
  <2>1. stack[c] \in Seq(Frame)
    BY DEF IInv, TypeOK
  <2> QED BY <2>1, BelowTop DEF FactoryPanics
<1>2. UNCHANGED <<attached, table, entries, stack, made, returned>> /\ panics' = panics \cup {c}
  BY DEF FactoryPanics
<1>3. TypeOK' /\ Nested'
  BY <1>1, <1>2 DEF IInv, TypeOK, Nested
<1>4. HeldInv' /\ OneMaker' /\ TableInv' /\ MadeInv' /\ ReturnedInv'
  BY <1>2 DEF IInv, HeldInv, Held, OneMaker, TableInv, MadeInv, ReturnedInv, Gone
<1> QED BY <1>3, <1>4 DEF IInv

\* The innermost call waits for the entry of who came first.
LEMMA LockWaitKeeps ==
  ASSUME IInv, NEW c \in Callers, stack[c] # <<>>, c \notin panics, Lock(c),
         table[Head(stack[c]).key] # 0
  PROVE  IInv'
<1> DEFINE k == Head(stack[c]).key
           f == Call("wait", k, table[k])
<1>1. k \in Keys
  <2>1. stack[c] \in Seq(Frame)
    BY DEF IInv, TypeOK
  <2>2. Head(stack[c]) \in Frame
    BY <2>1, BelowTop
  <2> QED BY <2>2 DEF Frame
<1>2. table[k] \in 1..Len(entries) /\ Len(entries) \in Nat
  BY <1>1, LenProperties DEF IInv, TypeOK
<1>3. f \in Frame /\ f.at = "wait" /\ f.key = k /\ f.entry = table[k]
  BY <1>1, <1>2, CallFrame
<1>4. Top(c, f) /\ UNCHANGED <<attached, table, entries, panics, made, returned>>
  BY DEF Lock
<1>5. attached' \in BOOLEAN
  BY <1>4 DEF IInv, TypeOK
<1> HIDE DEF f, k
<1>6. /\ stack' \in [Callers -> Seq(Frame)]
      /\ \A d \in Callers : d # c => stack'[d] = stack[d]
      /\ Len(stack'[c]) = Len(stack[c]) /\ stack'[c][1] = f
      /\ \A i \in 2..Len(stack[c]) : stack'[c][i] = stack[c][i]
  BY <1>3, <1>4, TopFacts DEF IInv
<1>7. Moves(c, 0)
  BY <1>6 DEF Moves, Same
<1>8. Typed(stack[c][1])' /\ Held(stack[c][1])' /\ stack'[c][1].at # "factory"
  BY <1>2, <1>3, <1>4, <1>6 DEF Typed, Held
<1> QED BY <1>4, <1>5, <1>7, <1>8, StackStep

\* The innermost call becomes the maker of a new entry, which it puts in the table.
LEMMA LockMakeKeeps ==
  ASSUME IInv, NEW c \in Callers, stack[c] # <<>>, c \notin panics, Lock(c),
         table[Head(stack[c]).key] = 0
  PROVE  IInv'
<1> DEFINE k == Head(stack[c]).key
           e == Len(entries) + 1
           f == Call("factory", k, e)
<1>1. k \in Keys
  <2>1. stack[c] \in Seq(Frame)
    BY DEF IInv, TypeOK
  <2>2. Head(stack[c]) \in Frame
    BY <2>1, BelowTop
  <2> QED BY <2>2 DEF Frame
<1>2. /\ entries \in Seq([ready : BOOLEAN, value : Nat]) /\ Len(entries) \in Nat /\ e \in Nat
      /\ TypeOK /\ Nested /\ HeldInv /\ OneMaker
  BY LenProperties DEF IInv, TypeOK
<1>3. f \in Frame /\ f.at = "factory" /\ f.key = k /\ f.entry = e
  BY <1>1, <1>2, CallFrame
<1>4. /\ Top(c, f) /\ UNCHANGED <<attached, panics, made, returned>>
      /\ table[k] = 0 /\ table' = [table EXCEPT ![k] = e]
      /\ entries' = Append(entries, [ready |-> FALSE, value |-> 0])
  BY DEF Lock
<1> HIDE DEF f, k
<1>5. /\ stack' \in [Callers -> Seq(Frame)]
      /\ \A d \in Callers : d # c => stack'[d] = stack[d]
      /\ Len(stack'[c]) = Len(stack[c]) /\ stack'[c][1] = f
      /\ \A i \in 2..Len(stack[c]) : stack'[c][i] = stack[c][i]
  BY <1>3, <1>4, TopFacts DEF IInv
<1>6. Moves(c, 0) /\ Len(stack'[c]) \in Nat
  BY <1>5, LenProperties DEF Moves, Same
<1>7. /\ entries' \in Seq([ready : BOOLEAN, value : Nat]) /\ Len(entries') = e
      /\ entries'[e] = [ready |-> FALSE, value |-> 0]
      /\ \A j \in 1..Len(entries) : j \in 1..e /\ j # e /\ entries'[j] = entries[j]
  BY <1>2, <1>4, AppendProperties
<1>8. /\ table' \in [Keys -> 0..e] /\ table'[k] = e
      /\ \A l \in Keys : l # k => table'[l] = table[l]
      /\ \A l \in Keys : table[l] # 0 => table[l] \in 1..Len(entries) /\ table'[l] = table[l]
      /\ \A l \in Keys : table[l] \in 0..Len(entries)
  BY <1>1, <1>2, <1>4 DEF TypeOK
<1>9. e \in 1..e /\ e # 0 /\ e \notin 1..Len(entries)
  BY <1>2
<1> HIDE DEF e
<1>10. TypeOK'
  <2>1. \A d \in Callers : \A i \in 1..Len(stack'[d]) :
          stack'[d][i].at # "lock" => stack'[d][i].entry \in 1..Len(entries')
    <3>1. Typed(stack[c][1])'
      BY <1>3, <1>5, <1>7, <1>9 DEF Typed
    <3> QED BY <3>1, <1>2, <1>6, <1>7, TypedMoves
  <2>2. attached' \in BOOLEAN /\ panics' \subseteq Callers /\ made' \in [Keys -> Nat]
        /\ returned' \in [Keys -> SUBSET Nat]
    BY <1>2, <1>4 DEF TypeOK
  <2> QED BY <2>1, <2>2, <1>5, <1>7, <1>8 DEF TypeOK
<1>11. Nested'
  BY <1>2, <1>4, <1>6, NestedMoves
\* Nothing held is disturbed: an entry in the table stays there, one gone stays gone.
<1>12. \A j \in 1..Len(entries) : Gone(j) => Gone(j)'
  <2> SUFFICES ASSUME NEW j \in 1..Len(entries), Gone(j) PROVE Gone(j)'
    OBVIOUS
  <2>1. entries'[j] = entries[j] /\ j # e
    BY <1>7
  <2>2. \A l \in Keys : table'[l] # j
    BY <1>8, <2>1 DEF Gone
  <2> QED BY <2>1, <2>2 DEF Gone
<1>13. HeldInv'
  <2>1. Held(stack[c][1])'
    BY <1>3, <1>5, <1>7, <1>8 DEF Held
  <2>2. ASSUME NEW g \in Frame, Held(g), Typed(g) PROVE Held(g)'
    <3>1. g.at # "lock" => g.entry \in 1..Len(entries) /\ g.entry # 0
      BY <2>2, <1>2 DEF Typed
    <3>2. g.key \in Keys
      BY DEF Frame
    <3>3. g.at = "factory" => table'[g.key] = g.entry /\ ~entries'[g.entry].ready
      BY <2>2, <3>1, <3>2, <1>7, <1>8 DEF Held
    <3>4. g.at = "wait" => table'[g.key] = g.entry \/ Gone(g.entry)'
      <4>1. CASE table[g.key] = g.entry
        BY <4>1, <3>1, <3>2, <1>8
      <4>2. CASE Gone(g.entry)
        BY <4>2, <3>1, <1>12
      <4> QED BY <4>1, <4>2, <2>2 DEF Held
    <3> QED BY <3>3, <3>4 DEF Held
  <2> QED BY <2>1, <2>2, <1>2, <1>6, HeldMoves
<1>14. OneMaker'
  BY <1>2, <1>3, <1>5, <1>6, <1>9, MakersMove
<1>15. TableInv'
  <2> SUFFICES ASSUME NEW l \in Keys, table'[l] # 0
               PROVE  /\ entries'[table'[l]].value = IF entries'[table'[l]].ready THEN table'[l] ELSE 0
                      /\ \A m \in Keys : table'[m] = table'[l] => m = l
    BY DEF TableInv
  <2>1. CASE l = k
    BY <2>1, <1>7, <1>8, <1>9
  <2>2. CASE l # k
    <3>1. table'[l] = table[l] /\ table[l] \in 1..Len(entries)
      BY <2>2, <1>8
    <3>2. \A m \in Keys : table'[m] = table'[l] => m = l
      BY <2>2, <3>1, <1>8, <1>9 DEF IInv, TableInv
    <3> QED BY <3>1, <3>2, <1>7 DEF IInv, TableInv
  <2> QED BY <2>1, <2>2
<1>16. MadeInv'
  <2> SUFFICES ASSUME NEW l \in Keys
               PROVE  made'[l] = IF table'[l] # 0 /\ entries'[table'[l]].ready THEN 1 ELSE 0
    BY DEF MadeInv
  <2>1. CASE l = k
    BY <2>1, <1>4, <1>7, <1>8 DEF IInv, MadeInv
  <2>2. CASE l # k
    <3>1. made'[l] = IF table[l] # 0 /\ entries[table[l]].ready THEN 1 ELSE 0
      BY <1>4 DEF IInv, MadeInv
    <3>2. table'[l] = table[l] /\ (table[l] # 0 => entries'[table[l]] = entries[table[l]])
      BY <2>2, <1>7, <1>8
    <3> QED BY <3>1, <3>2
  <2> QED BY <2>1, <2>2
<1>17. ReturnedInv'
  <2>1. ASSUME NEW l \in Keys, NEW v \in returned[l] \ {0}
        PROVE  table'[l] # 0 /\ entries'[table'[l]] = [ready |-> TRUE, value |-> v]
    <3>1. table[l] # 0 /\ entries[table[l]] = [ready |-> TRUE, value |-> v]
      BY DEF IInv, ReturnedInv
    <3> QED BY <3>1, <1>7, <1>8
  <2>2. ASSUME NEW l \in Keys, 0 \in returned[l]
        PROVE  \E j \in 1..Len(entries') : Gone(j)'
    <3>1. PICK j \in 1..Len(entries) : Gone(j)
      BY <2>2 DEF IInv, ReturnedInv
    <3> QED BY <3>1, <1>7, <1>12
  <2> QED BY <2>1, <2>2, <1>4 DEF ReturnedInv
<1> QED BY <1>10, <1>11, <1>13, <1>14, <1>15, <1>16, <1>17 DEF IInv

\* The innermost call of c ends: what PopFacts says of the move.
LEMMA PopMoves ==
  ASSUME TypeOK, Nested, NEW c \in Callers, stack[c] # <<>>, Pop(c)
  PROVE  /\ Moves(c, 1) /\ Len(stack'[c]) \in Nat
         /\ 1 \in 1..Len(stack[c]) /\ Head(stack[c]) = stack[c][1] /\ stack[c][1] \in Frame
         /\ Len(stack[c]) # 1 => stack'[c] # <<>> /\ stack'[c][1].at = "factory"
<1>1. /\ stack' \in [Callers -> Seq(Frame)]
      /\ \A d \in Callers : d # c => stack'[d] = stack[d]
      /\ Len(stack'[c]) = Len(stack[c]) - 1 /\ Len(stack[c]) \in Nat /\ Len(stack[c]) >= 1
      /\ \A i \in 1..Len(stack[c]) - 1 : stack'[c][i] = stack[c][i + 1]
  BY PopFacts
<1>2. Head(stack[c]) = stack[c][1] /\ stack[c][1] \in Frame
  BY BelowTop DEF TypeOK
<1>3. ASSUME Len(stack[c]) # 1 PROVE stack'[c] # <<>> /\ stack'[c][1].at = "factory"
  <2>1. Len(stack'[c]) >= 1 /\ 1 \in 1..Len(stack[c]) - 1 /\ 2 \in 2..Len(stack[c])
    <3> DEFINE n == Len(stack[c])
               m == Len(stack'[c])
    <3>1. n \in Nat /\ n # 1 /\ n >= 1 /\ m = n - 1
      BY <1>1, <1>3
    <3> HIDE DEF n, m
    <3>2. m >= 1 /\ 1 \in 1..n - 1 /\ 2 \in 2..n
      BY <3>1
    <3> QED BY <3>2 DEF n, m
  <2>2. stack'[c][1] = stack[c][2]
    BY <2>1, <1>1
  <2>3. stack'[c] # <<>>
    BY <2>1
  <2> QED BY <2>1, <2>2, <2>3 DEF Nested
<1>4. Moves(c, 1)
  BY <1>1 DEF Moves, Same
<1> QED BY <1>1, <1>2, <1>3, <1>4

\* A waiter is woken and returns the entry's value.
LEMMA WaitKeeps ==
  ASSUME IInv, NEW c \in Callers, stack[c] # <<>>, c \notin panics, Wait(c)
  PROVE  IInv'
<1> DEFINE s == Head(stack[c])
           e == s.entry
           k == s.key
<1>0. TypeOK /\ Nested /\ HeldInv /\ OneMaker
  BY DEF IInv
<1>1. /\ Pop(c) /\ UNCHANGED <<attached, table, entries, panics, made>> /\ s.at = "wait"
      /\ entries[e].ready
      /\ returned' = [returned EXCEPT ![k] = @ \cup {entries[e].value}]
  BY DEF Wait
<1>2. /\ Moves(c, 1) /\ Len(stack'[c]) \in Nat
      /\ 1 \in 1..Len(stack[c]) /\ s = stack[c][1] /\ s \in Frame
  BY <1>0, <1>1, PopMoves
<1>3. /\ k \in Keys /\ e \in 1..Len(entries) /\ e # 0 /\ e \in Nat
      /\ entries[e] \in [ready : BOOLEAN, value : Nat]
  <2>1. k \in Keys /\ e \in 1..Len(entries) /\ e \in Nat
    BY <1>0, <1>1, <1>2 DEF TypeOK, Frame
  <2>2. entries \in Seq([ready : BOOLEAN, value : Nat])
    BY <1>0 DEF TypeOK
  <2>3. entries[e] \in [ready : BOOLEAN, value : Nat]
    <3> HIDE DEF e
    <3> QED BY <2>1, <2>2, ElementOfSeq
  <2> QED BY <2>1, <2>3
<1>4. table[k] = e \/ Gone(e)
  BY <1>0, <1>1, <1>2 DEF HeldInv, Held
<1> HIDE DEF s, e, k
<1>5. TypeOK'
  <2>1. \A d \in Callers : \A i \in 1..Len(stack'[d]) :
          stack'[d][i].at # "lock" => stack'[d][i].entry \in 1..Len(entries')
    BY <1>0, <1>1, <1>2, TypedMoves
  <2>2. attached' \in BOOLEAN /\ panics' \subseteq Callers /\ made' \in [Keys -> Nat]
    BY <1>0, <1>1 DEF TypeOK
  <2>3. returned' \in [Keys -> SUBSET Nat]
    BY <1>0, <1>1, <1>3 DEF TypeOK
  <2>4. entries' \in Seq([ready : BOOLEAN, value : Nat]) /\ table' \in [Keys -> 0..Len(entries')]
    BY <1>0, <1>1 DEF TypeOK
  <2>5. stack' \in [Callers -> Seq(Frame)]
    BY <1>2 DEF Moves
  <2> QED BY <2>1, <2>2, <2>3, <2>4, <2>5 DEF TypeOK
<1>6. Nested'
  BY <1>0, <1>1, <1>2, NestedMoves
<1>7. HeldInv'
  <2>1. \A f \in Frame : Held(f) => Held(f)'
    BY <1>1 DEF Held, Gone
  <2> QED BY <2>1, <1>0, <1>2, HeldMoves
<1>8. OneMaker'
  BY <1>0, <1>2, MakersMove
<1>9. TableInv' /\ MadeInv'
  BY <1>1 DEF IInv, TableInv, MadeInv
\* The entry is the table's and has its number, or it is gone and nil.
<1>10. ReturnedInv'
  <2>0. /\ returned'[k] = returned[k] \cup {entries[e].value}
        /\ \A l \in Keys : l # k => returned'[l] = returned[l]
    BY <1>0, <1>1, <1>3 DEF TypeOK
  <2>1. entries[e].value # 0 => table[k] = e /\ entries[e] = [ready |-> TRUE, value |-> entries[e].value]
    <3>1. Gone(e) => entries[e].value = 0
      BY DEF Gone
    <3> QED BY <3>1, <1>1, <1>3, <1>4
  <2>2. entries[e].value = 0 => Gone(e)
    BY <1>1, <1>3, <1>4 DEF IInv, TableInv
  <2>3. ASSUME NEW l \in Keys, NEW v \in returned'[l] \ {0}
        PROVE  table[l] # 0 /\ entries[table[l]] = [ready |-> TRUE, value |-> v]
    <3>1. CASE v \in returned[l]
      BY <3>1 DEF IInv, ReturnedInv
    <3>2. CASE v \notin returned[l]
      <4>1. l = k /\ v = entries[e].value
        BY <3>2, <2>0
      <4> QED BY <4>1, <2>1, <1>3
    <3> QED BY <3>1, <3>2
  <2>4. ASSUME NEW l \in Keys, 0 \in returned'[l] PROVE \E j \in 1..Len(entries) : Gone(j)
    <3>1. CASE 0 \in returned[l]
      BY <3>1 DEF IInv, ReturnedInv
    <3>2. CASE 0 \notin returned[l]
      BY <3>2, <2>0, <2>2, <2>4, <1>3
    <3> QED BY <3>1, <3>2
  <2>5. \A j \in 1..Len(entries) : Gone(j) => Gone(j)'
    BY <1>1 DEF Gone
  <2> QED BY <2>3, <2>4, <2>5, <1>1 DEF ReturnedInv
<1> QED BY <1>5, <1>6, <1>7, <1>8, <1>9, <1>10 DEF IInv

\* The factory returns: its entry gets its value, and the waiters are woken.
LEMMA FactoryReturnsKeeps ==
  ASSUME IInv, NEW c \in Callers, stack[c] # <<>>, c \notin panics, FactoryReturns(c)
  PROVE  IInv'
<1> DEFINE s == Head(stack[c])
           e == s.entry
           k == s.key
<1>0. TypeOK /\ Nested /\ HeldInv /\ OneMaker /\ entries \in Seq([ready : BOOLEAN, value : Nat])
  BY DEF IInv, TypeOK
<1>1. /\ Pop(c) /\ UNCHANGED <<attached, table, panics>>
      /\ entries' = [entries EXCEPT ![e] = [ready |-> TRUE, value |-> e]]
      /\ made' = [made EXCEPT ![k] = @ + 1]
      /\ returned' = [returned EXCEPT ![k] = @ \cup {e}]
  BY DEF FactoryReturns
<1>2. /\ Moves(c, 1) /\ Len(stack'[c]) \in Nat
      /\ 1 \in 1..Len(stack[c]) /\ s = stack[c][1] /\ s \in Frame
      /\ Len(stack[c]) # 1 => stack'[c] # <<>> /\ stack'[c][1].at = "factory"
  BY <1>0, <1>1, PopMoves
<1>3. s.at = "factory"
  BY <1>0, <1>2 DEF FactoryReturns
<1>4. /\ k \in Keys /\ e \in 1..Len(entries) /\ e # 0 /\ e \in Nat
      /\ table[k] = e /\ ~entries[e].ready
  <2>1. k \in Keys /\ e \in 1..Len(entries) /\ e \in Nat
    BY <1>0, <1>2, <1>3 DEF TypeOK, Frame
  <2>2. Held(s)
    BY <1>0, <1>2 DEF HeldInv
  <2> QED BY <2>1, <2>2, <1>3 DEF Held
<1> HIDE DEF s, e, k
<1>5. /\ entries[e] \in [ready : BOOLEAN, value : Nat] /\ entries[e].value = 0
      /\ \A l \in Keys : table[l] \in 0..Len(entries)
      /\ \A l \in Keys : l # k => table[l] # e
  BY <1>0, <1>4, ElementOfSeq DEF IInv, TypeOK, TableInv
<1>6. /\ entries' \in Seq([ready : BOOLEAN, value : Nat]) /\ Len(entries') = Len(entries)
      /\ entries'[e] = [ready |-> TRUE, value |-> e]
      /\ \A j \in 1..Len(entries) : j # e => entries'[j] = entries[j]
  <2>1. [ready |-> TRUE, value |-> e] \in [ready : BOOLEAN, value : Nat]
    BY <1>4
  <2> QED BY <1>0, <1>1, <1>4, <2>1, ExceptSeq
<1>7. /\ made'[k] = made[k] + 1 /\ returned'[k] = returned[k] \cup {e}
      /\ \A l \in Keys : l # k => made'[l] = made[l] /\ returned'[l] = returned[l]
      /\ made' \in [Keys -> Nat] /\ returned' \in [Keys -> SUBSET Nat]
  BY <1>0, <1>1, <1>4 DEF TypeOK
<1>8. TypeOK'
  <2>1. \A d \in Callers : \A i \in 1..Len(stack'[d]) :
          stack'[d][i].at # "lock" => stack'[d][i].entry \in 1..Len(entries')
    BY <1>0, <1>2, <1>6, TypedMoves
  <2>2. attached' \in BOOLEAN /\ panics' \subseteq Callers /\ table' \in [Keys -> 0..Len(entries')]
    BY <1>0, <1>1, <1>6 DEF TypeOK
  <2>3. stack' \in [Callers -> Seq(Frame)]
    BY <1>2 DEF Moves
  <2> QED BY <2>1, <2>2, <2>3, <1>6, <1>7 DEF TypeOK
<1>9. Nested'
  BY <1>0, <1>1, <1>2, NestedMoves
<1>10. \A j \in 1..Len(entries) : Gone(j) => Gone(j)'
  BY <1>1, <1>4, <1>6 DEF Gone
\* No other call makes this entry, so that what the others hold stays as it was.
<1>11. HeldInv'
  <2>1. ASSUME NEW f \in Frame, Held(f), Typed(f), f.at = "factory" => f.entry # e
        PROVE  Held(f)'
    <3>1. f.at = "factory" => table'[f.key] = f.entry /\ ~entries'[f.entry].ready
      BY <2>1, <1>1, <1>6 DEF Held, Typed
    <3>2. f.at = "wait" => table'[f.key] = f.entry \/ Gone(f.entry)'
      <4>1. CASE table[f.key] = f.entry
        BY <4>1, <1>1
      <4>2. CASE Gone(f.entry)
        BY <4>2, <2>1, <1>10 DEF Typed
      <4> QED BY <4>1, <4>2, <2>1 DEF Held
    <3> QED BY <3>1, <3>2 DEF Held
  <2> QED BY <2>1, <1>0, <1>2, <1>3, HeldMoves DEF e
<1>12. OneMaker'
  BY <1>0, <1>2, MakersMove
<1>13. TableInv'
  <2> SUFFICES ASSUME NEW l \in Keys, table[l] # 0
               PROVE  /\ entries'[table[l]].value = IF entries'[table[l]].ready THEN table[l] ELSE 0
                      /\ \A m \in Keys : table[m] = table[l] => m = l
    BY <1>1 DEF TableInv
  <2>1. CASE l = k
    BY <2>1, <1>4, <1>6 DEF IInv, TableInv
  <2>2. CASE l # k
    BY <2>2, <1>5, <1>6 DEF IInv, TableInv
  <2> QED BY <2>1, <2>2
<1>14. MadeInv'
  <2> SUFFICES ASSUME NEW l \in Keys
               PROVE  made'[l] = IF table[l] # 0 /\ entries'[table[l]].ready THEN 1 ELSE 0
    BY <1>1 DEF MadeInv
  <2>1. CASE l = k
    <3>1. made[k] = 0
      BY <1>4 DEF IInv, MadeInv
    <3> QED BY <2>1, <3>1, <1>4, <1>6, <1>7
  <2>2. CASE l # k
    <3>1. made'[l] = IF table[l] # 0 /\ entries[table[l]].ready THEN 1 ELSE 0
      BY <2>2, <1>7 DEF IInv, MadeInv
    <3>2. table[l] # 0 => entries'[table[l]] = entries[table[l]]
      BY <2>2, <1>5, <1>6
    <3> QED BY <3>1, <3>2
  <2> QED BY <2>1, <2>2
\* Nobody had a value of this key: the entry was not ready.
<1>15. ReturnedInv'
  <2>1. \A v \in returned[k] : v = 0
    <3> SUFFICES ASSUME NEW v \in returned[k] \ {0} PROVE FALSE
      OBVIOUS
    <3>1. entries[table[k]] = [ready |-> TRUE, value |-> v]
      BY <1>4 DEF IInv, ReturnedInv
    <3> QED BY <3>1, <1>4
  <2>2. ASSUME NEW l \in Keys, NEW v \in returned'[l] \ {0}
        PROVE  table[l] # 0 /\ entries'[table[l]] = [ready |-> TRUE, value |-> v]
    <3>1. CASE l = k
      BY <3>1, <2>1, <1>4, <1>6, <1>7
    <3>2. CASE l # k
      <4>1. table[l] # 0 /\ entries[table[l]] = [ready |-> TRUE, value |-> v]
        BY <3>2, <1>7 DEF IInv, ReturnedInv
      <4> QED BY <4>1, <3>2, <1>5, <1>6
    <3> QED BY <3>1, <3>2
  <2>3. ASSUME NEW l \in Keys, 0 \in returned'[l] PROVE \E j \in 1..Len(entries') : Gone(j)'
    <3>1. 0 \in returned[l]
      BY <2>3, <1>4, <1>7
    <3>2. PICK j \in 1..Len(entries) : Gone(j)
      BY <3>1 DEF IInv, ReturnedInv
    <3> QED BY <3>2, <1>6, <1>10
  <2> QED BY <2>2, <2>3, <1>1 DEF ReturnedInv
<1> QED BY <1>8, <1>9, <1>11, <1>12, <1>13, <1>14, <1>15 DEF IInv

\* A panic unwinds a call: its entry leaves the table and its waiters get nil.
LEMMA UnwindKeeps ==
  ASSUME IInv, NEW c \in Callers, stack[c] # <<>>, c \in panics, Unwind(c)
  PROVE  IInv'
<1> DEFINE s == Head(stack[c])
           e == s.entry
           k == s.key
<1>0. TypeOK /\ Nested /\ HeldInv /\ OneMaker /\ entries \in Seq([ready : BOOLEAN, value : Nat])
  BY DEF IInv, TypeOK
<1>1. /\ Pop(c) /\ UNCHANGED <<attached, made, returned>>
      /\ table' = [table EXCEPT ![k] = 0]
      /\ entries' = [entries EXCEPT ![e].ready = TRUE]
      /\ panics' = IF Len(stack[c]) = 1 THEN panics \ {c} ELSE panics
  BY DEF Unwind
<1>2. /\ Moves(c, 1) /\ Len(stack'[c]) \in Nat
      /\ 1 \in 1..Len(stack[c]) /\ s = stack[c][1] /\ s \in Frame
      /\ Len(stack[c]) # 1 => stack'[c] # <<>> /\ stack'[c][1].at = "factory"
  BY <1>0, <1>1, PopMoves
<1>3. s.at = "factory"
  BY <1>0, <1>2 DEF Nested
<1>4. /\ k \in Keys /\ e \in 1..Len(entries) /\ e # 0 /\ e \in Nat
      /\ table[k] = e /\ ~entries[e].ready
  <2>1. k \in Keys /\ e \in 1..Len(entries) /\ e \in Nat
    BY <1>0, <1>2, <1>3 DEF TypeOK, Frame
  <2>2. Held(s)
    BY <1>0, <1>2 DEF HeldInv
  <2> QED BY <2>1, <2>2, <1>3 DEF Held
<1> HIDE DEF s, e, k
<1>5. /\ entries[e] \in [ready : BOOLEAN, value : Nat] /\ entries[e].value = 0
      /\ \A l \in Keys : table[l] \in 0..Len(entries)
      /\ \A l \in Keys : l # k => table[l] # e
  BY <1>0, <1>4, ElementOfSeq DEF IInv, TypeOK, TableInv
<1>6. /\ entries' \in Seq([ready : BOOLEAN, value : Nat]) /\ Len(entries') = Len(entries)
      /\ entries'[e] = [ready |-> TRUE, value |-> 0]
      /\ \A j \in 1..Len(entries) : j # e => entries'[j] = entries[j]
  <2> DEFINE r == entries[e]
             q == [r EXCEPT !.ready = TRUE]
  <2>1. q \in [ready : BOOLEAN, value : Nat] /\ q.ready = TRUE /\ q.value = 0
    <3> HIDE DEF r
    <3> QED BY <1>5 DEF r
  <2>2. q = [ready |-> TRUE, value |-> 0]
    <3> HIDE DEF q
    <3> QED BY <2>1
  <2>3. entries' = [entries EXCEPT ![e] = q]
    BY <1>1
  <2> HIDE DEF q, r
  <2> QED BY <1>0, <1>4, <2>1, <2>2, <2>3, ExceptSeq
<1>7. /\ table' \in [Keys -> 0..Len(entries)] /\ table'[k] = 0
      /\ \A l \in Keys : l # k => table'[l] = table[l]
  BY <1>0, <1>1, <1>4 DEF TypeOK
<1>8. TypeOK'
  <2>1. \A d \in Callers : \A i \in 1..Len(stack'[d]) :
          stack'[d][i].at # "lock" => stack'[d][i].entry \in 1..Len(entries')
    BY <1>0, <1>2, <1>6, TypedMoves
  <2>2. /\ attached' \in BOOLEAN /\ panics' \subseteq Callers
        /\ made' \in [Keys -> Nat] /\ returned' \in [Keys -> SUBSET Nat]
    BY <1>0, <1>1 DEF TypeOK
  <2>3. stack' \in [Callers -> Seq(Frame)]
    BY <1>2 DEF Moves
  <2> QED BY <2>1, <2>2, <2>3, <1>6, <1>7 DEF TypeOK
<1>9. Nested'
  <2>1. c \in panics' => stack'[c] # <<>> /\ stack'[c][1].at = "factory"
    BY <1>1, <1>2
  <2>2. \A d \in Callers : d # c /\ d \in panics' => d \in panics
    BY <1>1
  <2> QED BY <2>1, <2>2, <1>0, <1>2, NestedMoves
<1>10. \A j \in 1..Len(entries) : j = e \/ Gone(j) => Gone(j)'
  <2> SUFFICES ASSUME NEW j \in 1..Len(entries), j = e \/ Gone(j)
               PROVE  entries'[j] = [ready |-> TRUE, value |-> 0] /\ \A l \in Keys : table'[l] # j
    BY DEF Gone
  <2>1. entries'[j] = [ready |-> TRUE, value |-> 0]
    BY <1>6 DEF Gone
  <2>2. \A l \in Keys : table'[l] # j
    BY <1>5, <1>7 DEF Gone
  <2> QED BY <2>1, <2>2
\* No other call makes this entry, and who waits for it will get nil.
<1>11. HeldInv'
  <2>1. ASSUME NEW f \in Frame, Held(f), Typed(f), f.at = "factory" => f.entry # e
        PROVE  Held(f)'
    <3>0. f.key \in Keys
      BY DEF Frame
    <3>1. f.at = "factory" => table'[f.key] = f.entry /\ ~entries'[f.entry].ready
      BY <2>1, <3>0, <1>4, <1>6, <1>7 DEF Held, Typed
    <3>2. f.at = "wait" => table'[f.key] = f.entry \/ Gone(f.entry)'
      <4> SUFFICES ASSUME f.at = "wait" PROVE table'[f.key] = f.entry \/ Gone(f.entry)'
        OBVIOUS
      <4>0. f.entry \in 1..Len(entries)
        BY <2>1 DEF Typed
      <4>1. CASE table[f.key] = f.entry /\ f.key # k
        BY <4>1, <3>0, <1>7
      <4>2. CASE table[f.key] = f.entry /\ f.key = k
        BY <4>0, <4>2, <1>4, <1>10
      <4>3. CASE Gone(f.entry)
        BY <4>0, <4>3, <1>10
      <4> QED BY <4>1, <4>2, <4>3, <2>1 DEF Held
    <3> QED BY <3>1, <3>2 DEF Held
  <2> QED BY <2>1, <1>0, <1>2, <1>3, HeldMoves DEF e
<1>12. OneMaker'
  BY <1>0, <1>2, MakersMove
<1>13. TableInv'
  <2> SUFFICES ASSUME NEW l \in Keys, table'[l] # 0
               PROVE  /\ entries'[table'[l]].value = IF entries'[table'[l]].ready THEN table'[l] ELSE 0
                      /\ \A m \in Keys : table'[m] = table'[l] => m = l
    BY DEF TableInv
  <2>1. l # k /\ table'[l] = table[l]
    BY <1>7
  <2>2. \A m \in Keys : table'[m] = table'[l] => m = l
    BY <2>1, <1>7 DEF IInv, TableInv
  <2> QED BY <2>1, <2>2, <1>5, <1>6 DEF IInv, TableInv
<1>14. MadeInv'
  <2> SUFFICES ASSUME NEW l \in Keys
               PROVE  made'[l] = IF table'[l] # 0 /\ entries'[table'[l]].ready THEN 1 ELSE 0
    BY DEF MadeInv
  <2>1. CASE l = k
    <3>1. made[k] = 0
      BY <1>4 DEF IInv, MadeInv
    <3> QED BY <2>1, <3>1, <1>1, <1>7
  <2>2. CASE l # k
    <3>1. made'[l] = IF table[l] # 0 /\ entries[table[l]].ready THEN 1 ELSE 0
      BY <1>1 DEF IInv, MadeInv
    <3>2. table'[l] = table[l] /\ (table[l] # 0 => entries'[table[l]] = entries[table[l]])
      BY <2>2, <1>5, <1>6, <1>7
    <3> QED BY <3>1, <3>2
  <2> QED BY <2>1, <2>2
\* Nobody has a value of this key: the entry was not ready.
<1>15. ReturnedInv'
  <2>1. ASSUME NEW l \in Keys, NEW v \in returned[l] \ {0}
        PROVE  table'[l] # 0 /\ entries'[table'[l]] = [ready |-> TRUE, value |-> v]
    <3>1. table[l] # 0 /\ entries[table[l]] = [ready |-> TRUE, value |-> v]
      BY DEF IInv, ReturnedInv
    <3>2. l # k
      BY <3>1, <1>4
    <3> QED BY <3>1, <3>2, <1>5, <1>6, <1>7
  <2>2. ASSUME NEW l \in Keys, 0 \in returned[l] PROVE \E j \in 1..Len(entries') : Gone(j)'
    <3>1. PICK j \in 1..Len(entries) : Gone(j)
      BY <2>2 DEF IInv, ReturnedInv
    <3> QED BY <3>1, <1>6, <1>10
  <2> QED BY <2>1, <2>2, <1>1 DEF ReturnedInv
<1> QED BY <1>8, <1>9, <1>11, <1>12, <1>13, <1>14, <1>15 DEF IInv

\* Detach empties the table while nobody is in a call.
LEMMA DetachKeeps ==
  ASSUME IInv, Detach
  PROVE  IInv'
<1>1. \A c \in Callers : stack[c] = <<>> /\ Len(stack[c]) = 0
  BY DEF Detach
<1>2. /\ attached' = FALSE
      /\ table' = [k \in Keys |-> 0] /\ made' = [k \in Keys |-> 0]
      /\ returned' = [k \in Keys |-> {}]
      /\ UNCHANGED <<entries, stack, panics>>
  BY DEF Detach
<1>3. TypeOK'
  <2>1. entries' \in Seq([ready : BOOLEAN, value : Nat]) /\ Len(entries') \in Nat
    BY <1>2, LenProperties DEF IInv, TypeOK
  <2>2. attached' \in BOOLEAN /\ panics' \subseteq Callers /\ stack' \in [Callers -> Seq(Frame)]
    BY <1>2 DEF IInv, TypeOK
  <2>3. /\ table' \in [Keys -> 0..Len(entries')] /\ made' \in [Keys -> Nat]
        /\ returned' \in [Keys -> SUBSET Nat]
    BY <1>2, <2>1
  <2> QED BY <1>1, <1>2, <2>1, <2>2, <2>3 DEF TypeOK
<1>4. Nested' /\ HeldInv' /\ OneMaker'
  BY <1>1, <1>2 DEF IInv, Nested, HeldInv, OneMaker
<1>5. TableInv' /\ MadeInv' /\ ReturnedInv'
  BY <1>2 DEF TableInv, MadeInv, ReturnedInv
<1> QED BY <1>3, <1>4, <1>5 DEF IInv

\* Every step keeps the invariant.
LEMMA NextIInv == IInv /\ [Next]_vars => IInv'
<1> SUFFICES ASSUME IInv, [Next]_vars PROVE IInv'
  OBVIOUS
<1>1. ASSUME NEW c \in Callers, Step(c) PROVE IInv'
  BY <1>1, LockWaitKeeps, LockMakeKeeps, WaitKeeps, FactoryReturnsKeeps, FactoryCallsKeeps,
     UnwindKeeps DEF Step
<1>2. ASSUME NEW c \in Callers, stack[c] # <<>>, FactoryPanics(c) PROVE IInv'
  BY <1>2, FactoryPanicsKeeps
<1>3. ASSUME NEW c \in Callers, NEW k \in Keys, GetOrCreate(c, k) \/ Load(c, k) PROVE IInv'
  BY <1>3, GetOrCreateKeeps, LoadKeeps
<1>4. CASE UNCHANGED vars
  <2>1. TypeOK' /\ Nested' /\ TableInv' /\ MadeInv'
    BY <1>4 DEF vars, IInv, TypeOK, Nested, TableInv, MadeInv
  <2>2. HeldInv' /\ OneMaker' /\ ReturnedInv'
    BY <1>4 DEF vars, IInv, HeldInv, Held, Gone, OneMaker, ReturnedInv
  <2> QED BY <2>1, <2>2 DEF IInv
<1> QED BY <1>1, <1>2, <1>3, <1>4, DetachKeeps DEF Next

-----------------------------------------------------------------------------
\* The inductive invariant: who makes and who waits holds the table's entry of its
\* key, or one that a panic removed.
THEOREM Inductive == Spec => []IInv
BY InitIInv, NextIInv, PTL DEF Spec

\* The types of all variables of the host, for any goroutines and keys.
THEOREM HostTypes == Spec => []TypeOK
<1>1. IInv => TypeOK
  BY DEF IInv
<1> QED BY <1>1, Inductive, PTL

\* One value per key and host, however GetOrCreate, Load, nested factories, panics and
\* Detach interleave; nil only from a factory that panicked.
THEOREM OneValue == Spec => []OneValuePerKey
<1>1. IInv => OneValuePerKey
  <2> SUFFICES ASSUME IInv PROVE OneValuePerKey
    OBVIOUS
  <2>1. \A k \in Keys : made[k] <= 1
    BY DEF IInv, MadeInv
  <2> QED BY <2>1 DEF IInv, ReturnedInv, Gone, OneValuePerKey
<1> QED BY <1>1, Inductive, PTL
=============================================================================
