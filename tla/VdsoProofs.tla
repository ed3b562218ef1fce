----------------------------- MODULE VdsoProofs -----------------------------
(***************************************************************************)
(* Proofs about Auxv and Vdso, for any number of threads, any vector and   *)
(* any mix of opens that fail.  Every thread reads the same vector, so an  *)
(* entry of the table only ever goes from 0 to its value; a thread that    *)
(* has read to the end leaves a full table behind, and the pointer is      *)
(* moved after that.  Vdso makes no step in getauxval that getauxval does  *)
(* not make itself, so this holds in it too; what is added is that a       *)
(* lookup under a set environment has a right answer to go by.             *)
(***************************************************************************)
EXTENDS Vdso, SequenceTheorems, TLAPS

\* TypeOK in two parts.
MemTypes ==
    /\ environ \in BOOLEAN /\ located \in BOOLEAN
    /\ func \in Funcs
    /\ table \in [Types -> Nat] /\ secure \in Nat

CallTypes ==
    /\ pc \in [Threads -> Labels]
    /\ want \in [Threads -> Types]
    /\ pos \in [Threads -> 0..Len(Vector)]
    /\ copy \in [Threads -> Nat]
    /\ got \in [Threads -> Nat]
    /\ early \in [Threads -> BOOLEAN]

\* What has been written to the table is right.
Partial == \A type \in Types : table[type] \in {0, KernelVal(type)}

\* And so far it has been written.
ReadSoFar ==
    \A t \in Threads : pc[t] = "read" =>
        \A k \in 1..pos[t] : Vector[k].type # Ignore => table[Vector[k].type] = Vector[k].val

Full == \A type \in Types : table[type] = KernelVal(type)

FullAfter ==
    /\ \A t \in Threads : pc[t] \in {"store_secure", "cas_procfs", "get_procfs"} => Full
    /\ func = "get_procfs" => Full

LocatedAfter ==
    /\ \A t \in Threads : pc[t] \in {"find_secure", "cas_environ", "get_environ"} => located
    /\ func = "get_environ" => located

\* Only a call that is over can have been early, and it answered 0.
EarlyIsOver == \A t \in Threads : early[t] => pc[t] = "idle" /\ got[t] = 0

Inv ==
    /\ MemTypes /\ CallTypes
    /\ Partial /\ ReadSoFar /\ FullAfter /\ LocatedAfter /\ EarlyIsOver /\ RightAnswer

-----------------------------------------------------------------------------

\* The vector has one entry for a type, with the value the kernel gives.
LEMMA EntryFacts ==
  ASSUME NEW k \in 1..Len(Vector)
  PROVE  /\ Vector[k].type \in Types \cup {Ignore} /\ Vector[k].val \in Nat
         /\ Vector[k].type # Ignore => Vector[k].val = KernelVal(Vector[k].type)
  <1>0. Vector \in Seq([type : Types \cup {Ignore}, val : Nat])
    BY AuxvAssumption
  <1>1. Vector[k] \in [type : Types \cup {Ignore}, val : Nat]
    BY <1>0, ElementOfSeq
  <1>2. ASSUME Vector[k].type # Ignore PROVE Vector[k].val = KernelVal(Vector[k].type)
    <2> DEFINE T == Vector[k].type
    <2>1. T \in Types /\ k \in At(T)
      BY <1>1, <1>2 DEF At
    <2>2. (CHOOSE j \in At(T) : TRUE) = k
      <3>1. (CHOOSE j \in At(T) : TRUE) \in At(T)
        BY <2>1
      <3> QED BY <2>1, <3>1, AuxvAssumption
    <2> QED BY <2>1, <2>2 DEF KernelVal
  <1> QED BY <1>1, <1>2

LEMMA KernelNat ==
  ASSUME NEW type \in Types PROVE KernelVal(type) \in Nat
  <1>1. CASE At(type) = {} BY <1>1 DEF KernelVal
  <1>2. CASE At(type) # {}
    <2>1. PICK k \in At(type) : k = CHOOSE j \in At(type) : TRUE
      BY <1>2
    <2>2. Vector[k].val \in Nat
      BY <2>1, EntryFacts DEF At
    <2> QED BY <1>2, <2>1, <2>2 DEF KernelVal
  <1> QED BY <1>1, <1>2

LEMMA VectorLength == Len(Vector) \in Nat
  BY AuxvAssumption

LEMMA InitInv == Init => Inv
  <1> SUFFICES ASSUME Init PROVE Inv
    OBVIOUS
  <1>1. 0 \in 0..Len(Vector) /\ Secure \in Types
    BY VectorLength, AuxvAssumption
  <1>2. MemTypes
    BY DEF Init, MemTypes, Funcs
  <1>3. CallTypes
    BY <1>1 DEF Init, CallTypes, Labels, Funcs
  <1>4. Partial /\ ReadSoFar /\ FullAfter /\ LocatedAfter /\ EarlyIsOver /\ RightAnswer
    BY DEF Init, Partial, ReadSoFar, FullAfter, LocatedAfter, EarlyIsOver, RightAnswer
  <1> QED BY <1>2, <1>3, <1>4 DEF Inv

LEMMA StepMemTypes ==
  ASSUME MemTypes, CallTypes,
         NEW t \in Threads, Step(t) \/ SetEnviron \/ \E type \in Types : Call(t, type)
  PROVE  MemTypes'
  <1> USE DEF MemTypes, CallTypes, Funcs, Goto, mem, local, answer
  <1>1. CASE OpenFails(t) BY <1>1 DEF OpenFails, Cas
  <1>2. CASE Open(t) BY <1>2 DEF Open
  <1>3. CASE ReadEntry(t)
    <2>1. pos[t] + 1 \in 1..Len(Vector)
      BY <1>3, VectorLength DEF ReadEntry
    <2>2. Vector[pos[t] + 1].type \in Types \cup {Ignore} /\ Vector[pos[t] + 1].val \in Nat
      BY <2>1, EntryFacts
    <2>3. table' \in [Types -> Nat]
      BY <1>3, <2>2 DEF ReadEntry
    <2>4. UNCHANGED <<environ, func, secure, located>>
      BY <1>3 DEF ReadEntry
    <2> QED BY <2>3, <2>4
  <1>4. CASE LoadSecure(t) BY <1>4 DEF LoadSecure
  <1>5. CASE StoreSecure(t) BY <1>5 DEF StoreSecure
  <1>6. CASE CasProcfs(t) BY <1>6 DEF CasProcfs, Cas
  <1>7. CASE GetProcfs(t) BY <1>7 DEF GetProcfs, Return
  <1>8. CASE InitEnvironEarly(t) BY <1>8 DEF InitEnvironEarly, Return
  <1>9. CASE InitEnviron(t) BY <1>9 DEF InitEnviron
  <1>10. CASE FindSecure(t)
    <2>1. secure' \in Nat
      BY <1>10, KernelNat, AuxvAssumption DEF FindSecure
    <2> QED BY <1>10, <2>1 DEF FindSecure
  <1>11. CASE CasEnviron(t) BY <1>11 DEF CasEnviron, Cas
  <1>12. CASE GetEnviron(t) BY <1>12 DEF GetEnviron, Return
  <1>13. CASE \E type \in Types : Call(t, type) BY <1>13 DEF Call
  <1>14. CASE SetEnviron BY <1>14 DEF SetEnviron
  <1> QED BY <1>1, <1>2, <1>3, <1>4, <1>5, <1>6, <1>7, <1>8, <1>9, <1>10, <1>11, <1>12, <1>13, <1>14 DEF Step

LEMMA StepCallTypes ==
  ASSUME MemTypes, CallTypes,
         NEW t \in Threads, Step(t) \/ SetEnviron \/ \E type \in Types : Call(t, type)
  PROVE  CallTypes'
  <1> USE DEF MemTypes, CallTypes, Labels, Funcs, Goto, mem, local, answer
  <1>1. CASE OpenFails(t) BY <1>1, VectorLength, KernelNat DEF OpenFails, Cas
  <1>2. CASE Open(t) BY <1>2, VectorLength, KernelNat DEF Open
  <1>3. CASE ReadEntry(t) BY <1>3, VectorLength, KernelNat DEF ReadEntry
  <1>4. CASE LoadSecure(t) BY <1>4, VectorLength, KernelNat DEF LoadSecure
  <1>5. CASE StoreSecure(t) BY <1>5, VectorLength, KernelNat DEF StoreSecure
  <1>6. CASE CasProcfs(t) BY <1>6, VectorLength, KernelNat DEF CasProcfs, Cas
  <1>7. CASE GetProcfs(t) BY <1>7, VectorLength, KernelNat DEF GetProcfs, Return
  <1>8. CASE InitEnvironEarly(t) BY <1>8, VectorLength, KernelNat DEF InitEnvironEarly, Return
  <1>9. CASE InitEnviron(t) BY <1>9, VectorLength, KernelNat DEF InitEnviron
  <1>10. CASE FindSecure(t) BY <1>10, VectorLength, KernelNat DEF FindSecure
  <1>11. CASE CasEnviron(t) BY <1>11, VectorLength, KernelNat DEF CasEnviron, Cas
  <1>12. CASE GetEnviron(t) BY <1>12, VectorLength, KernelNat DEF GetEnviron, Return
  <1>13. CASE \E type \in Types : Call(t, type) BY <1>13, VectorLength, KernelNat DEF Call
  <1>14. CASE SetEnviron BY <1>14, VectorLength, KernelNat DEF SetEnviron
  <1> QED BY <1>1, <1>2, <1>3, <1>4, <1>5, <1>6, <1>7, <1>8, <1>9, <1>10, <1>11, <1>12, <1>13, <1>14 DEF Step

LEMMA StepPartial ==
  ASSUME MemTypes, CallTypes, Partial,
         NEW t \in Threads, Step(t) \/ SetEnviron \/ \E type \in Types : Call(t, type)
  PROVE  Partial'
  <1> USE DEF MemTypes, CallTypes, Partial, Goto, mem, local, answer
  <1>1. CASE OpenFails(t) BY <1>1 DEF OpenFails, Cas
  <1>2. CASE Open(t) BY <1>2 DEF Open
  <1>3. CASE ReadEntry(t)
    <2>1. pos[t] + 1 \in 1..Len(Vector)
      BY <1>3, VectorLength DEF ReadEntry
    <2>2. Vector[pos[t] + 1].type # Ignore => Vector[pos[t] + 1].val = KernelVal(Vector[pos[t] + 1].type)
      BY <2>1, EntryFacts
    <2> QED BY <1>3, <2>2 DEF ReadEntry
  <1>4. CASE LoadSecure(t) BY <1>4 DEF LoadSecure
  <1>5. CASE StoreSecure(t) BY <1>5 DEF StoreSecure
  <1>6. CASE CasProcfs(t) BY <1>6 DEF CasProcfs, Cas
  <1>7. CASE GetProcfs(t) BY <1>7 DEF GetProcfs, Return
  <1>8. CASE InitEnvironEarly(t) BY <1>8 DEF InitEnvironEarly, Return
  <1>9. CASE InitEnviron(t) BY <1>9 DEF InitEnviron
  <1>10. CASE FindSecure(t) BY <1>10 DEF FindSecure
  <1>11. CASE CasEnviron(t) BY <1>11 DEF CasEnviron, Cas
  <1>12. CASE GetEnviron(t) BY <1>12 DEF GetEnviron, Return
  <1>13. CASE \E type \in Types : Call(t, type) BY <1>13 DEF Call
  <1>14. CASE SetEnviron BY <1>14 DEF SetEnviron
  <1> QED BY <1>1, <1>2, <1>3, <1>4, <1>5, <1>6, <1>7, <1>8, <1>9, <1>10, <1>11, <1>12, <1>13, <1>14 DEF Step

LEMMA StepLocated ==
  ASSUME MemTypes, CallTypes, LocatedAfter,
         NEW t \in Threads, Step(t) \/ SetEnviron \/ \E type \in Types : Call(t, type)
  PROVE  LocatedAfter'
  <1> USE DEF MemTypes, CallTypes, LocatedAfter, Funcs, Goto, mem, local, answer
  <1>1. CASE OpenFails(t) BY <1>1 DEF OpenFails, Cas
  <1>2. CASE Open(t) BY <1>2 DEF Open
  <1>3. CASE ReadEntry(t) BY <1>3 DEF ReadEntry
  <1>4. CASE LoadSecure(t) BY <1>4 DEF LoadSecure
  <1>5. CASE StoreSecure(t) BY <1>5 DEF StoreSecure
  <1>6. CASE CasProcfs(t) BY <1>6 DEF CasProcfs, Cas
  <1>7. CASE GetProcfs(t) BY <1>7 DEF GetProcfs, Return
  <1>8. CASE InitEnvironEarly(t) BY <1>8 DEF InitEnvironEarly, Return
  <1>9. CASE InitEnviron(t) BY <1>9 DEF InitEnviron
  <1>10. CASE FindSecure(t) BY <1>10 DEF FindSecure
  <1>11. CASE CasEnviron(t) BY <1>11 DEF CasEnviron, Cas
  <1>12. CASE GetEnviron(t) BY <1>12 DEF GetEnviron, Return
  <1>13. CASE \E type \in Types : Call(t, type) BY <1>13 DEF Call
  <1>14. CASE SetEnviron BY <1>14 DEF SetEnviron
  <1> QED BY <1>1, <1>2, <1>3, <1>4, <1>5, <1>6, <1>7, <1>8, <1>9, <1>10, <1>11, <1>12, <1>13, <1>14 DEF Step

LEMMA StepEarly ==
  ASSUME MemTypes, CallTypes, EarlyIsOver,
         NEW t \in Threads, Step(t) \/ SetEnviron \/ \E type \in Types : Call(t, type)
  PROVE  EarlyIsOver'
  <1> USE DEF MemTypes, CallTypes, EarlyIsOver, Labels, Funcs, Goto, mem, local, answer
  <1>1. CASE OpenFails(t) BY <1>1 DEF OpenFails, Cas
  <1>2. CASE Open(t) BY <1>2 DEF Open
  <1>3. CASE ReadEntry(t) BY <1>3 DEF ReadEntry
  <1>4. CASE LoadSecure(t) BY <1>4 DEF LoadSecure
  <1>5. CASE StoreSecure(t) BY <1>5 DEF StoreSecure
  <1>6. CASE CasProcfs(t) BY <1>6 DEF CasProcfs, Cas
  <1>7. CASE GetProcfs(t) BY <1>7 DEF GetProcfs, Return
  <1>8. CASE InitEnvironEarly(t) BY <1>8 DEF InitEnvironEarly, Return
  <1>9. CASE InitEnviron(t) BY <1>9 DEF InitEnviron
  <1>10. CASE FindSecure(t) BY <1>10 DEF FindSecure
  <1>11. CASE CasEnviron(t) BY <1>11 DEF CasEnviron, Cas
  <1>12. CASE GetEnviron(t) BY <1>12 DEF GetEnviron, Return
  <1>13. CASE \E type \in Types : Call(t, type) BY <1>13 DEF Call
  <1>14. CASE SetEnviron BY <1>14 DEF SetEnviron
  <1> QED BY <1>1, <1>2, <1>3, <1>4, <1>5, <1>6, <1>7, <1>8, <1>9, <1>10, <1>11, <1>12, <1>13, <1>14 DEF Step

\* A step moves one thread only.
LEMMA Frame ==
  ASSUME CallTypes, NEW m \in Threads,
         NEW t \in Threads, Step(t) \/ SetEnviron \/ \E type \in Types : Call(t, type)
  PROVE  m # t =>
         /\ pc'[m] = pc[m] /\ pos'[m] = pos[m] /\ want'[m] = want[m]
         /\ got'[m] = got[m] /\ early'[m] = early[m]
  <1> USE DEF CallTypes, Goto, mem, local, answer
  <1>1. CASE OpenFails(t) BY <1>1 DEF OpenFails, Cas
  <1>2. CASE Open(t) BY <1>2 DEF Open
  <1>3. CASE ReadEntry(t) BY <1>3 DEF ReadEntry
  <1>4. CASE LoadSecure(t) BY <1>4 DEF LoadSecure
  <1>5. CASE StoreSecure(t) BY <1>5 DEF StoreSecure
  <1>6. CASE CasProcfs(t) BY <1>6 DEF CasProcfs, Cas
  <1>7. CASE GetProcfs(t) BY <1>7 DEF GetProcfs, Return
  <1>8. CASE InitEnvironEarly(t) BY <1>8 DEF InitEnvironEarly, Return
  <1>9. CASE InitEnviron(t) BY <1>9 DEF InitEnviron
  <1>10. CASE FindSecure(t) BY <1>10 DEF FindSecure
  <1>11. CASE CasEnviron(t) BY <1>11 DEF CasEnviron, Cas
  <1>12. CASE GetEnviron(t) BY <1>12 DEF GetEnviron, Return
  <1>13. CASE \E type \in Types : Call(t, type) BY <1>13 DEF Call
  <1>14. CASE SetEnviron BY <1>14 DEF SetEnviron
  <1> QED BY <1>1, <1>2, <1>3, <1>4, <1>5, <1>6, <1>7, <1>8, <1>9, <1>10, <1>11, <1>12, <1>13, <1>14 DEF Step

\* It writes what the kernel gives.
LEMMA Writes ==
  ASSUME MemTypes, CallTypes, NEW T \in Types,
         NEW t \in Threads, Step(t) \/ SetEnviron \/ \E type \in Types : Call(t, type)
  PROVE  table'[T] = table[T] \/ table'[T] = KernelVal(T)
  <1> USE DEF MemTypes, CallTypes, Goto, mem, local, answer
  <1>1. CASE OpenFails(t) BY <1>1 DEF OpenFails, Cas
  <1>2. CASE Open(t) BY <1>2 DEF Open
  <1>3. CASE ReadEntry(t)
    <2>1. pos[t] + 1 \in 1..Len(Vector)
      BY <1>3, VectorLength DEF ReadEntry
    <2>2. Vector[pos[t] + 1].type # Ignore => Vector[pos[t] + 1].val = KernelVal(Vector[pos[t] + 1].type)
      BY <2>1, EntryFacts
    <2> QED BY <1>3, <2>2 DEF ReadEntry
  <1>4. CASE LoadSecure(t) BY <1>4 DEF LoadSecure
  <1>5. CASE StoreSecure(t) BY <1>5 DEF StoreSecure
  <1>6. CASE CasProcfs(t) BY <1>6 DEF CasProcfs, Cas
  <1>7. CASE GetProcfs(t) BY <1>7 DEF GetProcfs, Return
  <1>8. CASE InitEnvironEarly(t) BY <1>8 DEF InitEnvironEarly, Return
  <1>9. CASE InitEnviron(t) BY <1>9 DEF InitEnviron
  <1>10. CASE FindSecure(t) BY <1>10 DEF FindSecure
  <1>11. CASE CasEnviron(t) BY <1>11 DEF CasEnviron, Cas
  <1>12. CASE GetEnviron(t) BY <1>12 DEF GetEnviron, Return
  <1>13. CASE \E type \in Types : Call(t, type)
    <2>1. table' = table
      BY <1>13 DEF Call
    <2> QED BY <2>1
  <1>14. CASE SetEnviron BY <1>14 DEF SetEnviron
  <1> QED BY <1>1, <1>2, <1>3, <1>4, <1>5, <1>6, <1>7, <1>8, <1>9, <1>10, <1>11, <1>12, <1>13, <1>14 DEF Step

\* It comes to read with nothing read, or having read one entry more.
LEMMA Reads ==
  ASSUME MemTypes, CallTypes, ReadSoFar, NEW t \in Threads, Step(t) \/ SetEnviron \/ \E type \in Types : Call(t, type),
         pc'[t] = "read", NEW k \in 1..pos'[t], Vector[k].type # Ignore
  PROVE  table'[Vector[k].type] = Vector[k].val
  <1>1. \/ pc[t] = "read" /\ ReadEntry(t)
        \/ pos'[t] = 0
        \/ SetEnviron /\ pc[t] = "read"
    BY DEF Step, CallTypes, MemTypes, Funcs, OpenFails, Open, LoadSecure, StoreSecure, CasProcfs, GetProcfs,
       InitEnvironEarly, InitEnviron, FindSecure, CasEnviron, GetEnviron, Call, SetEnviron, ReadEntry,
       Goto, Return, local
  <1>2. CASE pos'[t] = 0
    BY <1>2
  <1>3. CASE SetEnviron /\ pc[t] = "read"
    BY <1>3 DEF SetEnviron, ReadSoFar, local, mem
  <1>4. CASE pc[t] = "read" /\ ReadEntry(t)
    <2>1. pos'[t] = pos[t] + 1 /\ pos[t] \in Nat /\ pos[t] + 1 \in 1..Len(Vector)
      BY <1>4, VectorLength DEF ReadEntry, CallTypes
    <2>2. k \in 1..Len(Vector)
      BY <2>1, VectorLength
    <2>3. Vector[k].type \in Types /\ Vector[k].val = KernelVal(Vector[k].type)
      BY <2>2, EntryFacts
    <2>4. CASE k = pos[t] + 1
      BY <1>4, <2>3, <2>4 DEF ReadEntry, MemTypes
    <2>5. CASE k # pos[t] + 1
      <3>1. k \in 1..pos[t]
        BY <2>1, <2>5
      <3>2. table[Vector[k].type] = Vector[k].val
        BY <1>4, <3>1 DEF ReadSoFar
      <3> QED BY <2>3, <3>2, Writes
    <2> QED BY <2>4, <2>5
  <1> QED BY <1>1, <1>2, <1>3, <1>4

LEMMA StepReadSoFar ==
  ASSUME MemTypes, CallTypes, ReadSoFar, NEW t \in Threads, Step(t) \/ SetEnviron \/ \E type \in Types : Call(t, type)
  PROVE  ReadSoFar'
  <1> SUFFICES ASSUME NEW m \in Threads, pc'[m] = "read",
                      NEW k \in 1..pos'[m], Vector[k].type # Ignore
               PROVE  table'[Vector[k].type] = Vector[k].val
    BY DEF ReadSoFar
  <1>1. CASE m = t
    BY <1>1, Reads
  <1>2. CASE m # t
    <2>1. pc[m] = "read" /\ k \in 1..pos[m]
      BY <1>2, Frame
    <2>2. table[Vector[k].type] = Vector[k].val
      BY <2>1 DEF ReadSoFar
    <2>3. k \in 1..Len(Vector)
      BY <2>1, VectorLength DEF CallTypes
    <2>4. Vector[k].type \in Types /\ Vector[k].val = KernelVal(Vector[k].type)
      BY <2>3, EntryFacts
    <2> QED BY <2>2, <2>4, Writes
  <1> QED BY <1>1, <1>2

LEMMA FullStays ==
  ASSUME MemTypes, CallTypes, Full, NEW t \in Threads, Step(t) \/ SetEnviron \/ \E type \in Types : Call(t, type)
  PROVE  Full'
  <1>1. \A type \in Types : table'[type] = table[type] \/ table'[type] = KernelVal(type)
    BY Writes
  <1> QED BY <1>1 DEF Full

\* A thread that has read to the end leaves a full table.
LEMMA FullAtEnd ==
  ASSUME MemTypes, CallTypes, Partial, ReadSoFar, NEW t \in Threads, LoadSecure(t)
  PROVE  Full
  <1> SUFFICES ASSUME NEW type \in Types PROVE table[type] = KernelVal(type)
    BY DEF Full
  <1>1. CASE At(type) = {}
    BY <1>1 DEF KernelVal, Partial
  <1>2. CASE At(type) # {}
    <2>1. PICK k \in 1..Len(Vector) : Vector[k].type = type
      BY <1>2 DEF At
    <2>2. Vector[k].type # Ignore /\ Vector[k].val = KernelVal(type)
      BY <2>1, EntryFacts, AuxvAssumption
    <2>3. k \in 1..pos[t] /\ pc[t] = "read"
      BY DEF LoadSecure
    <2> QED BY <2>1, <2>2, <2>3 DEF ReadSoFar
  <1> QED BY <1>1, <1>2

LEMMA StepFullAfter ==
  ASSUME MemTypes, CallTypes, Partial, ReadSoFar, FullAfter,
         NEW t \in Threads, Step(t) \/ SetEnviron \/ \E type \in Types : Call(t, type)
  PROVE  FullAfter'
  <1> USE DEF MemTypes, CallTypes, Funcs, FullAfter, Goto, mem, local, answer
  <1>1. CASE OpenFails(t)
    <2>1. Full => Full'
      BY FullStays
    <2> QED BY <1>1, <2>1 DEF OpenFails, Cas
  <1>2. CASE Open(t) BY <1>2, FullStays DEF Open
  <1>3. CASE ReadEntry(t) BY <1>3, FullStays DEF ReadEntry
  <1>4. CASE LoadSecure(t)
    <2>1. Full /\ Full'
      BY <1>4, FullAtEnd, FullStays DEF Step
    <2> QED BY <1>4, <2>1 DEF LoadSecure
  <1>5. CASE StoreSecure(t) BY <1>5, FullStays DEF StoreSecure
  <1>6. CASE CasProcfs(t) BY <1>6, FullStays DEF CasProcfs, Cas
  <1>7. CASE GetProcfs(t) BY <1>7, FullStays DEF GetProcfs, Return
  <1>8. CASE InitEnvironEarly(t) BY <1>8, FullStays DEF InitEnvironEarly, Return
  <1>9. CASE InitEnviron(t) BY <1>9, FullStays DEF InitEnviron
  <1>10. CASE FindSecure(t) BY <1>10, FullStays DEF FindSecure
  <1>11. CASE CasEnviron(t) BY <1>11, FullStays DEF CasEnviron, Cas
  <1>12. CASE GetEnviron(t) BY <1>12, FullStays DEF GetEnviron, Return
  <1>13. CASE \E type \in Types : Call(t, type) BY <1>13, FullStays DEF Call
  <1>14. CASE SetEnviron BY <1>14, FullStays DEF SetEnviron
  <1> QED BY <1>1, <1>2, <1>3, <1>4, <1>5, <1>6, <1>7, <1>8, <1>9, <1>10, <1>11, <1>12, <1>13, <1>14 DEF Step

LEMMA StepRightAnswer ==
  ASSUME MemTypes, CallTypes, FullAfter, LocatedAfter, EarlyIsOver, RightAnswer,
         NEW t \in Threads, Step(t) \/ SetEnviron \/ \E type \in Types : Call(t, type)
  PROVE  RightAnswer'
  <1> SUFFICES ASSUME NEW m \in Threads, pc'[m] = "idle", want'[m] # Secure
               PROVE  got'[m] = IF early'[m] THEN 0 ELSE KernelVal(want'[m])
    BY DEF RightAnswer
  <1>1. CASE m # t
    BY <1>1, Frame DEF RightAnswer
  <1>2. CASE m = t
    <2>1. CASE GetProcfs(t)
      <3>1. want[t] \in Types /\ want' = want /\ early' = early /\ ~early[t] /\ Full
        BY <2>1 DEF GetProcfs, Return, local, CallTypes, EarlyIsOver, FullAfter
      <3>2. got'[t] = table[want[t]]
        BY <1>2, <2>1, <3>1 DEF GetProcfs, Return, CallTypes
      <3> QED BY <1>2, <3>1, <3>2 DEF Full
    <2>2. CASE GetEnviron(t)
      <3>1. want' = want /\ early' = early /\ ~early[t] /\ located
        BY <2>2 DEF GetEnviron, Return, local, EarlyIsOver, LocatedAfter
      <3>2. got'[t] = KernelVal(want[t])
        BY <1>2, <2>2, <3>1 DEF GetEnviron, Return, CallTypes
      <3> QED BY <1>2, <3>1, <3>2
    <2>3. CASE InitEnvironEarly(t)
      BY <1>2, <2>3 DEF InitEnvironEarly, Return, CallTypes
    <2>4. CASE SetEnviron
      BY <2>4 DEF SetEnviron, RightAnswer, local, answer
    <2>5. CASE \E type \in Types : Call(t, type)
      BY <1>2, <2>5 DEF Call, Goto, CallTypes, MemTypes, Funcs
    <2>6. CASE Step(t) /\ ~GetProcfs(t) /\ ~GetEnviron(t) /\ ~InitEnvironEarly(t)
      BY <1>2, <2>6 DEF Step, OpenFails, Open, ReadEntry, LoadSecure, StoreSecure, CasProcfs,
         InitEnviron, FindSecure, CasEnviron, Goto, CallTypes
    <2> QED BY <2>1, <2>2, <2>3, <2>4, <2>5, <2>6
  <1> QED BY <1>1, <1>2

LEMMA NextInv == Inv /\ [Next]_auxvVars => Inv'
  <1> SUFFICES ASSUME Inv, [Next]_auxvVars PROVE Inv'
    OBVIOUS
  <1> USE DEF Inv
  <1>1. CASE UNCHANGED auxvVars
    BY <1>1 DEF auxvVars, mem, local, answer, MemTypes, CallTypes, Partial, ReadSoFar, FullAfter, Full,
       LocatedAfter, EarlyIsOver, RightAnswer
  <1>2. ASSUME NEW t \in Threads, Step(t) \/ SetEnviron \/ \E type \in Types : Call(t, type)
        PROVE  Inv'
    BY <1>2, StepMemTypes, StepCallTypes, StepPartial, StepReadSoFar, StepFullAfter, StepLocated,
       StepEarly, StepRightAnswer
  <1>3. Main \in Threads
    BY AuxvAssumption
  <1> QED BY <1>1, <1>2, <1>3 DEF Next

\* Type correctness of getauxval.
THEOREM AuxvTypes == Spec => []TypeOK
  <1>1. Inv => TypeOK
    BY DEF Inv, MemTypes, CallTypes, TypeOK
  <1> QED BY InitInv, NextInv, <1>1, PTL DEF Spec

\* However the initialisations interleave, getauxval answers what the kernel
\* passed, or 0 before there is an environment.
THEOREM AnswersRight == Spec => []RightAnswer
  <1>1. Inv => RightAnswer
    BY DEF Inv
  <1> QED BY InitInv, NextInv, <1>1, PTL DEF Spec

\* getauxval_func never leaves the function a thread has settled on.
THEOREM FinalStays == Spec => StaysFinal
  <1>1. [Next]_auxvVars => [(func \in Final => func' = func)]_func
    BY DEF Next, Step, OpenFails, Open, ReadEntry, LoadSecure, StoreSecure, CasProcfs, GetProcfs,
       InitEnvironEarly, InitEnviron, FindSecure, CasEnviron, GetEnviron, Call, SetEnviron, Cas,
       Final, mem, auxvVars
  <1> QED BY <1>1, PTL DEF Spec, StaysFinal

-----------------------------------------------------------------------------

\* The clients and what they are at.
ClientTypes ==
    /\ vfunc \in [Symbols -> {"init", "vdso", "null"}]
    /\ at \in [Threads -> {"out", "lookup", "vdso", "syscall"}]
    /\ call \in [Threads -> Args]
    /\ result \in [Threads -> Results]

\* Before the environment is set there is one thread.
OnlyMain == ~environ => \A t \in Threads : t # Main => at[t] = "out"

\* A lookup asks for the vDSO, and was early only if it still is.
Asking ==
    \A t \in Threads : at[t] = "lookup" =>
        /\ want[t] = Ehdr
        /\ pc[t] = "idle" /\ early[t] => ~environ

ClientInv == Inv /\ ClientTypes /\ OnlyMain /\ Asking

\* A step of Vdso is one of getauxval, or none.
LEMMA AuxvSteps == VdsoNext => [Next]_auxvVars
  <1> SUFFICES ASSUME VdsoNext PROVE [Next]_auxvVars
    OBVIOUS
  <1>1. CASE SetEnviron
    BY <1>1 DEF Next
  <1>2. ASSUME NEW t \in Threads, Step(t) \/ \E type \in Types : Call(t, type) PROVE Next
    BY <1>2 DEF Next
  <1>3. ASSUME NEW t \in Threads, NEW arg \in Args, Enter(t, arg) PROVE [Next]_auxvVars
    <2>1. Ehdr \in Types
      BY VdsoAssumption
    <2> QED BY <1>2, <1>3, <2>1 DEF Enter
  <1>4. ASSUME NEW t \in Threads, Lookup(t) \/ CallVdso(t) \/ Syscall(t) PROVE UNCHANGED auxvVars
    BY <1>4 DEF Lookup, CallVdso, Syscall
  <1> QED BY <1>1, <1>2, <1>3, <1>4 DEF VdsoNext, VdsoStep

LEMMA StepClientTypes ==
  ASSUME ClientTypes, [VdsoNext]_vars PROVE ClientTypes'
  <1> USE DEF ClientTypes, vdsoVars
  <1>0. /\ VdsoSays \in [Args -> Results] /\ KernelSays \in [Args -> Results]
        /\ "ok" \in Results /\ "EINVAL" \in Results
    BY VdsoAssumption DEF Results
  <1>1. CASE UNCHANGED vdsoVars
    BY <1>1
  <1>2. ASSUME NEW t \in Threads, NEW arg \in Args, Enter(t, arg) PROVE ClientTypes'
    BY <1>2 DEF Enter
  <1>3. ASSUME NEW t \in Threads, Lookup(t) PROVE ClientTypes'
    BY <1>3 DEF Lookup, Found
  <1>4. ASSUME NEW t \in Threads, CallVdso(t) PROVE ClientTypes'
    BY <1>0, <1>4 DEF CallVdso, Leave
  <1>5. ASSUME NEW t \in Threads, Syscall(t) PROVE ClientTypes'
    BY <1>0, <1>5 DEF Syscall, Leave
  <1> QED BY <1>1, <1>2, <1>3, <1>4, <1>5 DEF VdsoNext, VdsoStep, vars

LEMMA StepOnlyMain ==
  ASSUME ClientTypes, OnlyMain, [VdsoNext]_vars PROVE OnlyMain'
  <1> USE DEF OnlyMain, ClientTypes
  <1>1. CASE UNCHANGED vars
    BY <1>1 DEF vars, vdsoVars, auxvVars
  <1>2. CASE UNCHANGED vdsoVars /\ (environ => environ')
    BY <1>2 DEF vdsoVars
  <1>3. ASSUME NEW t \in Threads, NEW arg \in Args, Enter(t, arg) PROVE OnlyMain'
    BY <1>3 DEF Enter, Call, auxvVars
  <1>4. ASSUME NEW t \in Threads, Lookup(t) \/ CallVdso(t) \/ Syscall(t) PROVE OnlyMain'
    BY <1>4 DEF Lookup, CallVdso, Syscall, Leave, auxvVars
  <1>5. SetEnviron => (environ => environ')
    BY DEF SetEnviron
  <1>6. ASSUME NEW t \in Threads, Step(t) \/ \E type \in Types : Call(t, type) PROVE environ => environ'
    BY <1>6 DEF Step, OpenFails, Open, ReadEntry, LoadSecure, StoreSecure, CasProcfs, GetProcfs,
       InitEnvironEarly, InitEnviron, FindSecure, CasEnviron, GetEnviron, Call, Return
  <1> QED BY <1>1, <1>2, <1>3, <1>4, <1>5, <1>6 DEF VdsoNext, VdsoStep

\* While getauxval runs for a lookup.
LEMMA StepAnswer ==
  ASSUME Inv, NEW t \in Threads, Step(t), NEW m \in Threads, want[m] = Ehdr,
         pc[m] = "idle" /\ early[m] => ~environ
  PROVE  want'[m] = Ehdr /\ (pc'[m] = "idle" /\ early'[m] => ~environ')
  <1>1. CASE m # t
    <2>1. UNCHANGED environ
      BY DEF Step, OpenFails, Open, ReadEntry, LoadSecure, StoreSecure, CasProcfs, GetProcfs,
         InitEnvironEarly, InitEnviron, FindSecure, CasEnviron, GetEnviron, Return
    <2> QED BY <1>1, <2>1, Frame DEF Inv
  <1>2. CASE m = t
    <2>1. pc[t] # "idle" => ~early[t]
      BY DEF Inv, EarlyIsOver
    <2>2. pc[t] # "idle" /\ want' = want /\ (early' = early \/ (~environ /\ UNCHANGED environ))
      BY DEF Step, OpenFails, Open, ReadEntry, LoadSecure, StoreSecure, CasProcfs, GetProcfs,
         InitEnvironEarly, InitEnviron, FindSecure, CasEnviron, GetEnviron, Return, local, answer
    <2> QED BY <1>2, <2>1, <2>2
  <1> QED BY <1>1, <1>2

LEMMA StepAsking ==
  ASSUME ClientInv, [VdsoNext]_vars PROVE Asking'
  <1> USE DEF ClientInv
  <1> SUFFICES ASSUME NEW m \in Threads, at'[m] = "lookup"
               PROVE  want'[m] = Ehdr /\ (pc'[m] = "idle" /\ early'[m] => ~environ')
    BY DEF Asking
  <1>1. CASE UNCHANGED vars
    BY <1>1 DEF vars, vdsoVars, auxvVars, local, answer, Asking
  <1>2. CASE SetEnviron /\ at[Main] = "out" /\ UNCHANGED vdsoVars
    BY <1>2 DEF SetEnviron, vdsoVars, OnlyMain
  <1>3. ASSUME NEW t \in Threads, Step(t), UNCHANGED vdsoVars
        PROVE  want'[m] = Ehdr /\ (pc'[m] = "idle" /\ early'[m] => ~environ')
    BY <1>3, StepAnswer DEF Asking, vdsoVars
  <1>4. ASSUME NEW t \in Threads, at[t] = "out", NEW type \in Types, Call(t, type), UNCHANGED vdsoVars
        PROVE  want'[m] = Ehdr /\ (pc'[m] = "idle" /\ early'[m] => ~environ')
    <2>1. m # t /\ at[m] = "lookup"
      BY <1>4 DEF vdsoVars
    <2> QED BY <1>4, <2>1 DEF Call, Goto, Asking, Inv, CallTypes
  <1>5. ASSUME NEW t \in Threads, NEW arg \in Args, Enter(t, arg)
        PROVE  want'[m] = Ehdr /\ (pc'[m] = "idle" /\ early'[m] => ~environ')
    <2>1. CASE m = t
      <3>1. Call(t, Ehdr)
        BY <1>5, <2>1 DEF Enter, ClientTypes
      <3> QED BY <2>1, <3>1 DEF Call, Goto, Inv, CallTypes, MemTypes, Funcs
    <2>2. CASE m # t
      <3>1. at[m] = "lookup"
        BY <1>5, <2>2 DEF Enter, ClientTypes
      <3>2. CASE UNCHANGED auxvVars
        BY <3>1, <3>2 DEF auxvVars, local, answer, Asking
      <3>3. CASE Call(t, Ehdr)
        BY <2>2, <3>1, <3>3 DEF Call, Goto, Inv, CallTypes, Asking
      <3> QED BY <1>5, <3>2, <3>3 DEF Enter
    <2> QED BY <2>1, <2>2
  <1>6. ASSUME NEW t \in Threads, Lookup(t) \/ CallVdso(t) \/ Syscall(t)
        PROVE  want'[m] = Ehdr /\ (pc'[m] = "idle" /\ early'[m] => ~environ')
    <2>1. at[m] = "lookup" /\ UNCHANGED auxvVars
      BY <1>6 DEF Lookup, CallVdso, Syscall, Leave, ClientTypes
    <2> QED BY <2>1 DEF auxvVars, local, answer, Asking
  <1> QED BY <1>1, <1>2, <1>3, <1>4, <1>5, <1>6 DEF VdsoNext, VdsoStep

LEMMA InitClientInv == VdsoInit => ClientInv
  <1> SUFFICES ASSUME VdsoInit PROVE ClientInv
    OBVIOUS
  <1>1. Inv
    BY InitInv DEF VdsoInit
  <1>2. ClientTypes
    BY VdsoAssumption DEF VdsoInit, ClientTypes, Args
  <1>3. OnlyMain /\ Asking
    BY DEF VdsoInit, OnlyMain, Asking
  <1> QED BY <1>1, <1>2, <1>3 DEF ClientInv

LEMMA NextClientInv == ClientInv /\ [VdsoNext]_vars => ClientInv'
  <1> SUFFICES ASSUME ClientInv, [VdsoNext]_vars PROVE ClientInv'
    OBVIOUS
  <1>1. [Next]_auxvVars
    BY AuxvSteps DEF vars
  <1> QED BY <1>1, NextInv, StepClientTypes, StepOnlyMain, StepAsking DEF ClientInv

\* The composition is an implementation of getauxval: what is proved of Auxv
\* holds in a program that also reads clocks.
THEOREM UsesAuxv == VdsoSpec => Spec
  <1>1. VdsoInit => Init
    BY DEF VdsoInit
  <1>2. [VdsoNext]_vars => [Next]_auxvVars
    BY AuxvSteps DEF vars
  <1> QED BY <1>1, <1>2, PTL DEF VdsoSpec, Spec

\* Type correctness of clock_gettime, sched_getcpu and getauxval together.
THEOREM VdsoTypes == VdsoSpec => []VdsoTypeOK
  <1>1. ClientInv => VdsoTypeOK
    BY DEF ClientInv, Inv, MemTypes, CallTypes, TypeOK, ClientTypes, VdsoTypeOK
  <1> QED BY InitClientInv, NextClientInv, <1>1, PTL DEF VdsoSpec

\* clock_gettime and sched_getcpu serve what the kernel serves, for any vDSO
\* that does not contradict the kernel.
THEOREM ServesAsTheKernel == VdsoSpec => []AsTheKernel
  <1> USE DEF AsTheKernel, ClientTypes
  <1>1. VdsoInit => AsTheKernel
    BY VdsoAssumption DEF VdsoInit
  <1>2. ASSUME ClientInv, AsTheKernel, [VdsoNext]_vars PROVE AsTheKernel'
    <2> USE <1>2 DEF ClientInv
    <2>1. CASE UNCHANGED vdsoVars
      BY <2>1 DEF vdsoVars
    <2>2. ASSUME NEW t \in Threads, NEW arg \in Args, Enter(t, arg) PROVE AsTheKernel'
      BY <2>2 DEF Enter
    <2>3. ASSUME NEW t \in Threads, Lookup(t) PROVE AsTheKernel'
      BY <2>3 DEF Lookup
    <2>4. ASSUME NEW t \in Threads, CallVdso(t) PROVE AsTheKernel'
      BY <2>4, VdsoAssumption DEF CallVdso, Leave, Results
    <2>5. ASSUME NEW t \in Threads, Syscall(t) PROVE AsTheKernel'
      BY <2>5, VdsoAssumption DEF Syscall, Leave, Results
    <2> QED BY <2>1, <2>2, <2>3, <2>4, <2>5 DEF VdsoNext, VdsoStep, vars
  <1> QED BY InitClientInv, NextClientInv, <1>1, <1>2, PTL DEF VdsoSpec

\* No race makes clock_gettime or sched_getcpu give up a vDSO that is there.
THEOREM NeverNullLate == VdsoSpec => NoNullLate
  <1>1. ASSUME ClientInv, [VdsoNext]_vars,
               NEW s \in Exported \cap Symbols, environ, KernelVal(Ehdr) # 0, vfunc'[s] = "null"
        PROVE  vfunc[s] = "null"
    <2> USE <1>1 DEF ClientInv, ClientTypes
    <2>1. CASE vfunc' = vfunc
      BY <2>1
    <2>2. ASSUME NEW t \in Threads, Lookup(t) PROVE vfunc[s] = "null"
      <3>1. want[t] = Ehdr /\ ~early[t] /\ pc[t] = "idle"
        BY <2>2 DEF Lookup, Asking
      <3>2. got[t] = KernelVal(Ehdr)
        BY <3>1, VdsoAssumption DEF Inv, RightAnswer
      <3>3. Found(t) = "null" => s # Symbol(call[t])
        BY <3>2 DEF Found
      <3> QED BY <2>2, <3>3 DEF Lookup
    <2> QED BY <2>1, <2>2 DEF VdsoNext, VdsoStep, Enter, CallVdso, Syscall, vars, vdsoVars
  <1>2. ClientInv /\ [VdsoNext]_vars =>
          [\A s \in Exported \cap Symbols :
             environ /\ KernelVal(Ehdr) # 0 /\ vfunc'[s] = "null" => vfunc[s] = "null"]_vfunc
    BY <1>1
  <1> QED BY InitClientInv, NextClientInv, <1>2, PTL DEF VdsoSpec, NoNullLate
=============================================================================
