------------------------- MODULE ByokResolverProofs -------------------------
(***************************************************************************)
(* Proofs about ByokResolver for any number of workers, calls and writes   *)
(* and with any faults: types, and, until a row is deleted, that a version *)
(* names one key in the memory of every worker.                            *)
(***************************************************************************)
EXTENDS ByokResolver, TLAPS

\* Until a delete the row's version counts the saves, as its key does, and so does
\* whatever a call carries from the database to the dict.
Names == \A w \in Worker, v \in Version : res[w][v] \in {v, Absent}
Carried == \A o \in Op : At(o, "store") => call[o].key = call[o].version
NamesInv ==
  Undeleted => row.version = saves /\ row.key = saves /\ Names /\ Carried

\* The parts of TypeOK that belong to the row, to the caches and to the calls.
RowType ==
  /\ row \in [version : Version, key : Key, active : BOOLEAN]
  /\ row.active => row.version # 0
  /\ saves \in 0..MaxWrites /\ writes \in 0..MaxWrites
  /\ saves <= writes /\ row.version <= saves /\ erased \in 0..saves
CacheType ==
  /\ res \in [Worker -> [Version -> Key \cup {Absent}]]
  /\ ptr1 \in [Worker -> Version \cup {Absent}]
  /\ ptr2 \in Version \cup {Absent}
CallType ==
  /\ call \in [Op -> CallRow]
  /\ \A o \in Op : ~At(o, "idle") => call[o].worker \in Worker
  /\ \A o \in Op : call[o].pc \in {"promote", "store", "l2set"} => call[o].version \in Version
  /\ \A o \in Op : call[o].pc \in {"store", "l2set"} => call[o].key \in Key
KeyedType == keyed \in [Worker -> BOOLEAN]
AnswerType == answer \in Key \cup {Failed, NoAnswer}

-----------------------------------------------------------------------------
LEMMA Parts ==
  TypeOK <=> RowType /\ CacheType /\ CallType /\ KeyedType /\ AnswerType
BY DEF TypeOK, RowType, CacheType, CallType, KeyedType, AnswerType

LEMMA PartsNext ==
  ASSUME RowType', CacheType', CallType', KeyedType', AnswerType' PROVE TypeOK'
BY DEF TypeOK, RowType, CacheType, CallType, KeyedType, AnswerType

LEMMA Numbers == 0 \in Version /\ 0 \in Key /\ MaxWrites \in Nat
BY ByokAssumption DEF Version, Key

LEMMA TypeInit == Init => TypeOK
<1> SUFFICES ASSUME Init PROVE TypeOK
  OBVIOUS
<1> USE Numbers
<1>1. RowType
  BY DEF Init, RowType, NoRow, Platform
<1>2. CallType
  BY DEF Init, CallType, CallRow, Idle, At
<1>3. CacheType /\ KeyedType /\ AnswerType
  BY DEF Init, CacheType, KeyedType, AnswerType, Keyed
<1>4. QED
  BY <1>1, <1>2, <1>3, Parts

LEMMA GotoTypes ==
  ASSUME CallType, NEW o \in Op, NEW w \in Worker, NEW v \in Version \cup {Absent},
         NEW k \in Key \cup {Absent},
         NEW label \in {"l2get", "promote", "load", "store", "l2set", "invalidate"},
         label \in {"promote", "store", "l2set"} => v \in Version,
         label \in {"store", "l2set"} => k \in Key,
         Goto(o, label, w, v, k)
  PROVE  CallType'
<1> DEFINE next == [pc |-> label, worker |-> w, version |-> v, key |-> k]
<1>1. next \in CallRow
  BY DEF CallRow
<1>2. call' = [call EXCEPT ![o] = next]
  BY DEF Goto
<1>3. QED
  BY <1>1, <1>2 DEF CallType, At

LEMMA IdleType == Idle \in CallRow /\ Idle.pc = "idle"
BY DEF Idle, CallRow

LEMMA FinishTypes ==
  ASSUME CallType, NEW o \in Op, Finish(o)
  PROVE  CallType'
BY IdleType DEF Finish, CallType, At

LEMMA Answers ==
  /\ Silent => AnswerType'
  /\ \A k \in Key \cup {Failed} : Answer(k) => AnswerType'
BY DEF Silent, Answer, AnswerType

LEMMA EffectiveTypes ==
  RowType => EffectiveVersion \in Version /\ EffectiveKey \in Key
BY Numbers DEF RowType, EffectiveVersion, EffectiveKey, Platform

LEMMA TypeStep == TypeOK /\ [Next]_vars => TypeOK'
<1> SUFFICES ASSUME TypeOK, [Next]_vars PROVE TypeOK'
  OBVIOUS
<1> USE Numbers
<1>0. RowType /\ CacheType /\ CallType /\ KeyedType /\ AnswerType
  BY Parts
<1>1. CASE UNCHANGED vars
  BY <1>1 DEF vars, TypeOK, At
<1>2. ASSUME NEW o \in Op, NEW w \in Worker, Resolve(o, w) PROVE TypeOK'
  <2>1. UNCHANGED <<keyed, row, saves, writes, erased, res, ptr1, ptr2>>
    BY <1>2 DEF Resolve
  <2>2. CallType'
    BY <1>0, <1>2, GotoTypes DEF Resolve, CallType, At
  <2>3. ptr1[w] # Absent => ptr1[w] \in Version
    BY <1>0 DEF CacheType
  <2>4. AnswerType'
    BY <1>0, <1>2, <2>3, Answers DEF Resolve, CacheType
  <2>5. QED
    BY <1>0, <2>1, <2>2, <2>4, PartsNext DEF RowType, CacheType, KeyedType
<1>3. ASSUME NEW o \in Op, GetPointer(o) \/ Load(o) PROVE TypeOK'
  <2>1. call[o].worker \in Worker
    BY <1>0, <1>3 DEF GetPointer, Load, CallType, At
  <2>2. UNCHANGED <<keyed, row, saves, writes, erased, res, ptr1, ptr2>>
    BY <1>3 DEF GetPointer, Load
  <2>3. CallType'
    BY <1>0, <1>3, <2>1, GotoTypes, FinishTypes, EffectiveTypes
       DEF GetPointer, Load, CacheType
  <2>4. AnswerType'
    BY <1>3, Answers DEF GetPointer, Load, Platform
  <2>5. QED
    BY <1>0, <2>2, <2>3, <2>4, PartsNext DEF RowType, CacheType, KeyedType
<1>4. ASSUME NEW o \in Op, Promote(o) PROVE TypeOK'
  <2>1. call[o].worker \in Worker /\ call[o].version \in Version
    BY <1>0, <1>4 DEF Promote, CallType, At
  <2>2. CallType'
    BY <1>0, <1>4, <2>1, GotoTypes, FinishTypes DEF Promote
  <2>3. AnswerType'
    BY <1>0, <1>4, <2>1, Answers DEF Promote, CacheType
  <2>4. CacheType'
    BY <1>0, <1>4, <2>1 DEF Promote, CacheType
  <2>5. QED
    BY <1>0, <1>4, <2>2, <2>3, <2>4, PartsNext DEF Promote, RowType, KeyedType
<1>5. ASSUME NEW o \in Op, Store(o) PROVE TypeOK'
  <2>1. call[o].worker \in Worker /\ call[o].version \in Version /\ call[o].key \in Key
    BY <1>0, <1>5 DEF Store, CallType, At
  <2>2. CallType'
    BY <1>0, <1>5, <2>1, GotoTypes DEF Store
  <2>3. [res[call[o].worker] EXCEPT ![call[o].version] = call[o].key]
          \in [Version -> Key \cup {Absent}]
    BY <1>0, <2>1 DEF CacheType
  <2>4. CacheType'
    BY <1>0, <1>5, <2>1, <2>3 DEF Store, CacheType
  <2>5. QED
    BY <1>0, <1>5, <2>2, <2>4, Answers, PartsNext DEF Store, RowType, KeyedType
<1>6. ASSUME NEW o \in Op, SetPointer(o) PROVE TypeOK'
  <2>1. call[o].version \in Version /\ call[o].key \in Key
    BY <1>0, <1>6 DEF SetPointer, CallType, At
  <2>2. CacheType'
    BY <1>0, <1>6, <2>1 DEF SetPointer, CacheType
  <2>3. QED
    BY <1>0, <1>6, <2>1, <2>2, Answers, FinishTypes, PartsNext DEF SetPointer, RowType, KeyedType
<1>7. ASSUME NEW o \in Op, Invalidate(o) PROVE TypeOK'
  <2>1. CacheType'
    BY <1>0, <1>7 DEF Invalidate, Dropped, CacheType
  <2>2. QED
    BY <1>0, <1>7, <2>1, Answers, FinishTypes, PartsNext DEF Invalidate, RowType, KeyedType
<1>8. ASSUME NEW o \in Op, NEW w \in Worker,
             SetConfig(o, w) \/ DeleteConfig(o, w) \/ SetStatus(o, w)
      PROVE  TypeOK'
  <2>1. PICK newRow : Write(o, w, newRow)
    BY <1>8 DEF SetConfig, DeleteConfig, SetStatus
  <2>2. CallType'
    BY <1>0, <2>1, GotoTypes DEF Write
  <2>3. writes \in 0..MaxWrites - 1 /\ saves \in 0..writes
    BY <1>0, <2>1 DEF Write, RowType
  <2>4. RowType'
    <3>1. CASE SetConfig(o, w)
      BY <1>0, <2>3, <3>1 DEF SetConfig, Write, RowType, Bumped, Version, Key
    <3>2. CASE DeleteConfig(o, w)
      BY <1>0, <2>3, <3>2 DEF DeleteConfig, Write, RowType, NoRow, Platform
    <3>3. CASE SetStatus(o, w)
      <4>1. PICK active \in BOOLEAN :
              Write(o, w, [row EXCEPT !.active = active /\ row.version # 0])
        BY <3>3 DEF SetStatus
      <4>2. row' = [row EXCEPT !.active = active /\ row.version # 0]
        BY <4>1 DEF Write
      <4>3. (active /\ row.version # 0) \in BOOLEAN
        BY <4>1
      <4>4. /\ row' \in [version : Version, key : Key, active : BOOLEAN]
            /\ row'.version = row.version /\ row'.active => row.version # 0
        BY <1>0, <4>2, <4>3 DEF RowType
      <4>5. QED
        BY <1>0, <2>3, <3>3, <4>1, <4>4 DEF SetStatus, Write, RowType
    <3>4. QED
      BY <1>8, <3>1, <3>2, <3>3
  <2>5. QED
    BY <1>0, <2>1, <2>2, <2>4, Answers, PartsNext DEF Write, CacheType, KeyedType
<1>9. ASSUME NEW w \in Worker, ExpireL1(w) PROVE TypeOK'
  <2>1. CacheType'
    BY <1>0, <1>9 DEF ExpireL1, CacheType
  <2>2. QED
    BY <1>0, <1>9, <2>1, Answers, PartsNext
       DEF ExpireL1, RowType, KeyedType, CallType, At
<1>10. CASE ExpireL2
  <2>1. CacheType'
    BY <1>0, <1>10 DEF ExpireL2, CacheType
  <2>2. QED
    BY <1>0, <1>10, <2>1, Answers, PartsNext DEF ExpireL2, RowType, KeyedType, CallType, At
<1>11. ASSUME NEW w \in Worker, Restart(w) PROVE TypeOK'
  <2>1. CacheType'
    BY <1>0, <1>11 DEF Restart, CacheType
  <2>2. CallType'
    BY <1>0, <1>11, IdleType DEF Restart, CallType, At
  <2>3. KeyedType'
    BY <1>0, <1>11 DEF Restart, Keyed, KeyedType
  <2>4. QED
    BY <1>0, <1>11, <2>1, <2>2, <2>3, Answers, PartsNext DEF Restart, RowType
<1>12. QED
  BY <1>1, <1>2, <1>3, <1>4, <1>5, <1>6, <1>7, <1>8, <1>9, <1>10, <1>11 DEF Next, Handle

\* ByokResolver: the variables keep their types, with deletes and any faults.
THEOREM TypeCorrect == Spec => []TypeOK
BY TypeInit, TypeStep, PTL DEF Spec

-----------------------------------------------------------------------------
LEMMA NamesInit == Init => NamesInv
BY DEF Init, NamesInv, Names, Carried, NoRow, Platform, Idle, At

\* A step that leaves the row alone.
LEMMA SameRow ==
  ASSUME NamesInv, row' = row, saves' = saves, erased' = erased,
         Undeleted /\ Names => Names', Undeleted /\ Carried => Carried'
  PROVE  NamesInv'
BY DEF NamesInv, Undeleted

\* A step that leaves the dicts alone.
LEMMA SameNames ==
  ASSUME Names, res' = res PROVE Names'
BY DEF Names

LEMMA NamesStep ==
  ASSUME TypeOK, NamesInv, [Next]_vars
  PROVE  NamesInv'
<1>0. RowType /\ CacheType /\ CallType
  BY Parts
<1>1. CASE UNCHANGED vars
  BY <1>1, SameRow, SameNames DEF vars, Carried, At
<1>2. ASSUME NEW o \in Op, NEW w \in Worker, Resolve(o, w) PROVE NamesInv'
  <2>1. Carried => Carried'
    BY <1>0, <1>2 DEF Resolve, Goto, CallType, Carried, At
  <2>2. QED
    BY <1>2, <2>1, SameRow, SameNames DEF Resolve
<1>3. ASSUME NEW o \in Op, GetPointer(o) \/ Promote(o) \/ SetPointer(o) PROVE NamesInv'
  <2>1. Carried => Carried'
    BY <1>0, <1>3 DEF GetPointer, Promote, SetPointer, Goto, Finish, Idle, CallType, Carried, At
  <2>2. QED
    BY <1>3, <2>1, SameRow, SameNames DEF GetPointer, Promote, SetPointer
<1>4. ASSUME NEW o \in Op, Load(o) PROVE NamesInv'
  <2>1. row' = row /\ saves' = saves /\ erased' = erased /\ res' = res
    BY <1>4 DEF Load
  <2>2. Undeleted => EffectiveKey = EffectiveVersion
    BY DEF EffectiveKey, EffectiveVersion, Platform, NamesInv, Undeleted
  <2>3. Undeleted /\ Carried => Carried'
    BY <1>0, <1>4, <2>2 DEF Load, Goto, Finish, Idle, CallType, Carried, At
  <2>4. QED
    BY <2>1, <2>3, SameRow, SameNames
<1>5. ASSUME NEW o \in Op, Store(o) PROVE NamesInv'
  <2>1. call[o].version \in Version /\ call[o].worker \in Worker
    BY <1>0, <1>5 DEF Store, CallType, At
  <2>2. Carried => call[o].key = call[o].version
    BY <1>5 DEF Store, Carried, At
  <2>3. Undeleted /\ Names => Names'
    BY <1>0, <1>5, <2>1, <2>2 DEF Store, NamesInv, Names, CacheType
  <2>4. Carried => Carried'
    BY <1>0, <1>5 DEF Store, Goto, CallType, Carried, At
  <2>5. QED
    BY <1>5, <2>3, <2>4, SameRow DEF Store
<1>6. ASSUME NEW o \in Op, Invalidate(o) PROVE NamesInv'
  <2>1. Names => Names'
    BY <1>0, <1>6 DEF Invalidate, Dropped, Names, CacheType
  <2>2. Carried => Carried'
    BY <1>0, <1>6 DEF Invalidate, Finish, Idle, CallType, Carried, At
  <2>3. QED
    BY <1>6, <2>1, <2>2, SameRow DEF Invalidate
<1>7. ASSUME NEW o \in Op, NEW w \in Worker, SetConfig(o, w) PROVE NamesInv'
  <2>1. /\ saves' = saves + 1 /\ erased' = erased /\ res' = res
        /\ row'.version = row.version + 1 /\ row'.key = saves + 1
    BY <1>7 DEF SetConfig, Write, Bumped
  <2>2. Undeleted' => Undeleted
    BY <1>0, <2>1 DEF Undeleted, RowType, Version
  <2>3. Carried => Carried'
    BY <1>0, <1>7 DEF SetConfig, Write, Goto, CallType, Carried, At
  <2>4. QED
    BY <2>1, <2>2, <2>3, SameNames DEF NamesInv
<1>8. ASSUME NEW o \in Op, NEW w \in Worker, SetStatus(o, w) PROVE NamesInv'
  <2>1. row'.version = row.version /\ row'.key = row.key /\ saves' = saves /\ erased' = erased /\ res' = res
    BY <1>0, <1>8 DEF SetStatus, Write, RowType
  <2>2. Carried => Carried'
    BY <1>0, <1>8 DEF SetStatus, Write, Goto, CallType, Carried, At
  <2>3. QED
    BY <2>1, <2>2, SameNames DEF NamesInv, Undeleted
<1>9. ASSUME NEW w \in Worker, ExpireL1(w) PROVE NamesInv'
  BY <1>9, SameRow, SameNames DEF ExpireL1, Carried, At
<1>10. CASE ExpireL2
  BY <1>10, SameRow, SameNames DEF ExpireL2, Carried, At
<1>11. ASSUME NEW w \in Worker, Restart(w) PROVE NamesInv'
  <2>1. Names => Names'
    BY <1>0, <1>11 DEF Restart, Names, CacheType
  <2>2. Carried => Carried'
    BY <1>0, <1>11 DEF Restart, Idle, CallType, Carried, At
  <2>3. QED
    BY <1>11, <2>1, <2>2, SameRow DEF Restart
<1>12. ASSUME NEW o \in Op, NEW w \in Worker, DeleteConfig(o, w) PROVE NamesInv'
  <2>1. row' = NoRow /\ saves' = saves /\ erased' = saves /\ res' = res
    BY <1>12 DEF DeleteConfig, Write
  <2>2. Undeleted' => Undeleted /\ row'.version = saves' /\ row'.key = saves'
    BY <1>0, <2>1 DEF Undeleted, RowType, Version, NoRow, Platform
  <2>3. Carried => Carried'
    BY <1>0, <1>12 DEF DeleteConfig, Write, Goto, CallType, Carried, At
  <2>4. QED
    BY <2>1, <2>2, <2>3, SameNames DEF NamesInv
<1>13. QED
  BY <1>1, <1>2, <1>3, <1>4, <1>5, <1>6, <1>7, <1>8, <1>9, <1>10, <1>11, <1>12
     DEF Next, Handle

\* resolve_llm: until a row is deleted, a worker's dict never holds under a version any
\* key but the one that was saved with it.
THEOREM VersionsNameKeys == Spec => []VersionNamesKey
<1>1. TypeOK /\ NamesInv /\ [Next]_vars => NamesInv'
  BY NamesStep
<1>2. NamesInv => VersionNamesKey
  BY DEF NamesInv, VersionNamesKey, Names
<1>3. QED
  BY <1>1, <1>2, NamesInit, TypeCorrect, PTL DEF Spec
=============================================================================
