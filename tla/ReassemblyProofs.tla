-------------------------- MODULE ReassemblyProofs --------------------------
(***************************************************************************)
(* Theorems about the reassembly of messages, for any messages, keys and   *)
(* limits.                                                                 *)
(*                                                                         *)
(* A group that is as old as the last first sentence of its key holds only *)
(* what came since.  The two stricter receivers hold sentences 1 to n,     *)
(* which the server holds too where they can be compared.                  *)
(***************************************************************************)
EXTENDS Reassembly, FiniteSetTheorems, TLAPS

\* The assumptions on the constants in the form the proofs use.
LEMMA Constants ==
    /\ Ttl \in Nat /\ ModTtl \in Nat /\ ModTtl <= Ttl
    /\ MaxGroups \in Nat \ {0} /\ ModGroups \in Nat \ {0}
    /\ \A m \in Messages : Total[m] \in 2..9
BY ReassemblyAssumption DEF ReassemblyAssumption

\* What the server does not tell apart neither of the others does.
LEMMA CoarserKeys ==
    ASSUME NEW m \in Messages, NEW n \in Messages, Key[m] = Key[n]
    PROVE  PadKey[m] = PadKey[n] /\ ModKey[m] = ModKey[n]
BY ReassemblyAssumption DEF ReassemblyAssumption

\* A sentence and the group it belongs to.
LEMMA SentenceIs ==
    ASSUME NEW s \in Sentences
    PROVE  /\ s[1] \in Messages /\ s[2] \in 1..9 /\ s[2] <= Total[s[1]] /\ Total[s[1]] \in 2..9
           /\ s = <<s[1], s[2]>>
           /\ GroupKey(s[1]) \in GroupKeys /\ GroupKey(s[1])[1] = Key[s[1]]
           /\ GroupKey(s[1])[2] = Total[s[1]]
BY Constants DEF Sentences, GroupKey, GroupKeys

\* The key and the number of sentences tell groups apart.
LEMMA KeysAre ==
    ASSUME NEW k \in GroupKeys
    PROVE  k[2] \in 2..9 /\ k = <<k[1], k[2]>>
BY Constants DEF GroupKeys, GroupKey

\* The same of the iPad's keys.
LEMMA PadGroupsAre ==
    /\ \A j \in PadGroups : j[2] \in 2..9
    /\ \A m \in Messages : PadGroup(m) \in PadGroups /\ PadGroup(m)[1] = PadKey[m] /\ PadGroup(m)[2] = Total[m]
BY Constants DEF PadGroups, PadGroup

-----------------------------------------------------------------------------
(* The server's groups.                                                    *)
Group == [age : Ages, parts : SUBSET Sentences]

AppShape ==
    /\ app \in [GroupKeys -> Group]
    /\ \A k \in GroupKeys : IsFiniteSet(app[k].parts)
    /\ waited \in [GroupKeys -> Ages] /\ since \in [GroupKeys -> SUBSET Sentences]
    /\ refused \subseteq GroupKeys

Distinct(parts) == \A s, t \in parts : s[2] = t[2] => s = t
Begun(parts) == parts # {} => \E s \in parts : s[2] = 1
Incomplete(parts, total) == parts # {} => Cardinality(parts) < total
AppParts ==
    \A k \in GroupKeys :
        Distinct(app[k].parts) /\ Begun(app[k].parts) /\ Incomplete(app[k].parts, k[2])

AppTable == IsFiniteSet(Open(app)) /\ Cardinality(Open(app)) <= MaxGroups

\* What a receiver that has removed what expired goes on with.
Alive(groups) == [k \in GroupKeys |-> IF groups[k].age > Ttl THEN NoGroup ELSE groups[k]]

\* What has not expired is as it was.
LEMMA AliveIs ==
    ASSUME AppShape
    PROVE  /\ Alive(app) \in [GroupKeys -> Group]
           /\ \A k \in GroupKeys :
                /\ IsFiniteSet(Alive(app)[k].parts)
                /\ Alive(app)[k] \in {app[k], NoGroup}
                /\ app[k].age <= Ttl => Alive(app)[k] = app[k]
           /\ Open(Alive(app)) \subseteq Open(app)
<1>1. NoGroup \in Group /\ NoGroup.parts = {}
  BY Constants DEF NoGroup, Group, Ages
<1>2. Alive(app) \in [GroupKeys -> Group]
  BY <1>1 DEF Alive, AppShape
<1>3. \A k \in GroupKeys : /\ Alive(app)[k] \in {app[k], NoGroup}
                           /\ app[k].age <= Ttl => Alive(app)[k] = app[k]
  <2> TAKE k \in GroupKeys
  <2>1. app[k].age \in Nat
    BY Constants DEF AppShape, Group, Ages
  <2> QED
    BY <2>1, Constants DEF Alive
<1>4. \A k \in GroupKeys : IsFiniteSet(Alive(app)[k].parts)
  BY <1>1, <1>3, FS_EmptySet DEF AppShape
<1>5. Open(Alive(app)) \subseteq Open(app)
  BY <1>1, <1>3 DEF Open
<1> QED
  BY <1>2, <1>3, <1>4, <1>5

\* What a sentence makes of the group of its key, and that it leaves the others.
Becomes(groups, s) ==
    LET g == Started(groups, s)
        parts == g.parts \cup {s}
    IN  IF g.parts = {} \/ Conflicts(g, s) \/ Cardinality(parts) = Total[s[1]] THEN NoGroup
        ELSE [g EXCEPT !.parts = parts]

LEMMA AppAfterIs ==
    ASSUME NEW groups \in [GroupKeys -> Group], NEW s \in Sentences
    PROVE  /\ AppAfter(groups, s) = IF Refuses(groups, s) THEN groups
                                    ELSE [groups EXCEPT ![GroupKey(s[1])] = Becomes(groups, s)]
           /\ \A k \in GroupKeys : k # GroupKey(s[1]) => AppAfter(groups, s)[k] = groups[k]
           /\ ~Refuses(groups, s) => AppAfter(groups, s)[GroupKey(s[1])] = Becomes(groups, s)
           /\ Refuses(groups, s) => s[2] = 1 /\ groups[GroupKey(s[1])].parts = {}
<1>1. AppAfter(groups, s) = IF Refuses(groups, s) THEN groups
                            ELSE [groups EXCEPT ![GroupKey(s[1])] = Becomes(groups, s)]
  BY DEF AppAfter, Becomes
<1>2. Refuses(groups, s) => s[2] = 1 /\ groups[GroupKey(s[1])].parts = {}
  BY SentenceIs DEF Refuses, Open
<1> QED
  BY <1>1, <1>2, SentenceIs

\* The group of the sentence afterwards: nothing, or what it was and the sentence.
LEMMA BecomesIs ==
    ASSUME NEW groups \in [GroupKeys -> Group], NEW s \in Sentences,
           IsFiniteSet(groups[GroupKey(s[1])].parts),
           Incomplete(groups[GroupKey(s[1])].parts, Total[s[1]])
    PROVE  /\ Started(groups, s) \in Group
           /\ IsFiniteSet(Started(groups, s).parts)
           /\ Becomes(groups, s) \in Group /\ IsFiniteSet(Becomes(groups, s).parts)
           /\ Becomes(groups, s).parts # {} =>
                /\ Becomes(groups, s).age = Started(groups, s).age
                /\ Becomes(groups, s).parts = Started(groups, s).parts \cup {s}
                /\ ~Conflicts(Started(groups, s), s)
                /\ Started(groups, s).parts # {}
                /\ Cardinality(Becomes(groups, s).parts) < Total[s[1]]
<1> DEFINE g == Started(groups, s)
           parts == g.parts \cup {s}
<1>1. g \in Group /\ IsFiniteSet(g.parts)
  <2>1. CASE s[2] = 1
    <3>1. g = [age |-> 0, parts |-> {s}]
      BY <2>1 DEF Started
    <3>2. 0 \in Ages
      BY Constants DEF Ages
    <3>3. IsFiniteSet({s})
      BY FS_Singleton
    <3> QED
      BY <3>1, <3>2, <3>3 DEF Group
  <2>2. CASE s[2] # 1
    BY <2>2, SentenceIs DEF Started
  <2> QED
    BY <2>1, <2>2
<1>2. Cardinality(g.parts) \in Nat /\ g.parts # {} => Cardinality(g.parts) < Total[s[1]]
  <2>1. CASE s[2] = 1
    <3>1. g.parts = {s}
      BY <2>1 DEF Started
    <3>2. Cardinality({s}) = 1
      BY FS_Singleton
    <3> QED
      BY <3>1, <3>2, SentenceIs
  <2>2. CASE s[2] # 1
    <3>1. g = groups[GroupKey(s[1])]
      BY <2>2 DEF Started
    <3> QED
      BY <3>1, <1>1, FS_CardinalityType DEF Incomplete
  <2> QED
    BY <2>1, <2>2
<1>3. IsFiniteSet(parts) /\ Cardinality(parts) \in Nat /\ Cardinality(parts) <= Cardinality(g.parts) + 1
      /\ Cardinality(g.parts) \in Nat
  <2>1. IsFiniteSet(parts) /\ Cardinality(parts) = IF s \in g.parts THEN Cardinality(g.parts) ELSE Cardinality(g.parts) + 1
    BY <1>1, FS_AddElement
  <2>2. Cardinality(g.parts) \in Nat
    BY <1>1, FS_CardinalityType
  <2> QED
    BY <2>1, <2>2
<1>4. NoGroup \in Group /\ NoGroup.parts = {}
  BY Constants DEF NoGroup, Group, Ages
<1>5. [g EXCEPT !.parts = parts] \in Group /\ [g EXCEPT !.parts = parts].parts = parts
      /\ [g EXCEPT !.parts = parts].age = g.age
  BY <1>1 DEF Group
<1>6. CASE g.parts = {} \/ Conflicts(g, s) \/ Cardinality(parts) = Total[s[1]]
  <2>1. Becomes(groups, s) = NoGroup
    BY <1>6 DEF Becomes
  <2> QED
    BY <2>1, <1>1, <1>4, FS_EmptySet
<1>7. CASE ~(g.parts = {} \/ Conflicts(g, s) \/ Cardinality(parts) = Total[s[1]])
  <2>1. Becomes(groups, s) = [g EXCEPT !.parts = parts]
    BY <1>7 DEF Becomes
  <2>2. Cardinality(parts) < Total[s[1]]
    BY <1>2, <1>3, <1>7, SentenceIs
  <2> QED
    BY <2>1, <2>2, <1>1, <1>3, <1>5, <1>7
<1> QED
  BY <1>6, <1>7

AppInv == AppShape /\ AppParts /\ AppTable /\ NoStaleParts

\* The server and what is remembered about it when a sentence arrives.
LEMMA ReceiveIs ==
    ASSUME NEW s \in Sentences, Receive(s)
    PROVE  /\ app' = AppAfter(Alive(app), s)
           /\ since' = [since EXCEPT ![GroupKey(s[1])] = IF s[2] = 1 THEN {s} ELSE @ \cup {s}]
           /\ waited' = IF s[2] = 1 THEN [waited EXCEPT ![GroupKey(s[1])] = 0] ELSE waited
           /\ refused' = IF s[2] > 1 THEN refused
                         ELSE IF Refuses(Alive(app), s) THEN refused \cup {GroupKey(s[1])}
                         ELSE refused \ {GroupKey(s[1])}
BY DEF Receive, Alive

\* The shape of the server's groups survives a sentence.
LEMMA ReceiveShape ==
    ASSUME AppInv, NEW s \in Sentences, Receive(s)
    PROVE  AppShape'
<1> DEFINE k == GroupKey(s[1])
<1>1. /\ Alive(app) \in [GroupKeys -> Group] /\ k \in GroupKeys
      /\ \A j \in GroupKeys : IsFiniteSet(Alive(app)[j].parts) /\ Alive(app)[j] \in {app[j], NoGroup}
  BY AliveIs, SentenceIs DEF AppInv
<1>2. Incomplete(Alive(app)[k].parts, Total[s[1]])
  BY <1>1, SentenceIs DEF AppInv, AppParts, NoGroup, Incomplete
<1>3. Becomes(Alive(app), s) \in Group /\ IsFiniteSet(Becomes(Alive(app), s).parts)
  BY <1>1, <1>2, BecomesIs
<1>4. app' \in [GroupKeys -> Group] /\ \A j \in GroupKeys : IsFiniteSet(app'[j].parts)
  <2>1. CASE Refuses(Alive(app), s)
    BY <1>1, <2>1, AppAfterIs, ReceiveIs
  <2>2. CASE ~Refuses(Alive(app), s)
    <3>1. app' = [Alive(app) EXCEPT ![k] = Becomes(Alive(app), s)]
      BY <1>1, <2>2, AppAfterIs, ReceiveIs
    <3> QED
      BY <3>1, <1>1, <1>3
  <2> QED
    BY <2>1, <2>2
<1>5. waited' \in [GroupKeys -> Ages]
  <2>1. 0 \in Ages
    BY Constants DEF Ages
  <2> QED
    BY <2>1, ReceiveIs DEF AppInv, AppShape
<1>6. refused' \subseteq GroupKeys /\ since' \in [GroupKeys -> SUBSET Sentences]
  <2>1. refused' \subseteq GroupKeys
    BY <1>1, ReceiveIs DEF AppInv, AppShape
  <2>2. (IF s[2] = 1 THEN {s} ELSE since[k] \cup {s}) \in SUBSET Sentences
    BY <1>1 DEF AppInv, AppShape
  <2>3. since' \in [GroupKeys -> SUBSET Sentences]
    BY <2>2, ReceiveIs DEF AppInv, AppShape
  <2> QED
    BY <2>1, <2>3
<1> QED
  BY <1>4, <1>5, <1>6 DEF AppShape

\* What a group holds afterwards.
LEMMA ReceiveParts ==
    ASSUME AppInv, NEW s \in Sentences, Receive(s)
    PROVE  AppParts' /\ NoStaleParts'
<1> DEFINE k == GroupKey(s[1])
           old == Alive(app)
           g == Started(old, s)
<1>1. /\ old \in [GroupKeys -> Group] /\ k \in GroupKeys
      /\ \A j \in GroupKeys : IsFiniteSet(old[j].parts) /\ old[j] \in {app[j], NoGroup}
  BY AliveIs, SentenceIs DEF AppInv
<1>2. \A j \in GroupKeys : /\ Distinct(old[j].parts) /\ Begun(old[j].parts) /\ Incomplete(old[j].parts, j[2])
                           /\ old[j].parts # {} => old[j].parts \subseteq since[j] /\ old[j].age = waited[j]
  BY <1>1 DEF AppInv, AppParts, NoGroup, Incomplete, Begun, Distinct, NoStaleParts
<1>3. \A j \in GroupKeys : j # k => /\ app'[j] = old[j]
                                    /\ since'[j] = since[j] /\ waited'[j] = waited[j]
  <2>1. \A j \in GroupKeys : j # k => since'[j] = since[j] /\ waited'[j] = waited[j]
    BY ReceiveIs, <1>1 DEF AppInv, AppShape
  <2>2. app' = AppAfter(old, s)
    BY ReceiveIs
  <2>3. \A j \in GroupKeys : j # k => AppAfter(old, s)[j] = old[j]
    BY <1>1, AppAfterIs
  <2> QED
    BY <2>1, <2>2, <2>3
<1>4. \A j \in GroupKeys : j # k =>
        /\ Distinct(app'[j].parts) /\ Begun(app'[j].parts) /\ Incomplete(app'[j].parts, j[2])
        /\ app'[j].parts # {} => app'[j].parts \subseteq since'[j] /\ app'[j].age = waited'[j]
  BY <1>2, <1>3
<1>5. /\ Distinct(app'[k].parts) /\ Begun(app'[k].parts) /\ Incomplete(app'[k].parts, k[2])
      /\ app'[k].parts # {} => app'[k].parts \subseteq since'[k] /\ app'[k].age = waited'[k]
  <2>1. CASE app'[k].parts = {}
    BY <2>1 DEF Distinct, Begun, Incomplete
  <2>2. CASE app'[k].parts # {}
    <3>1. app'[k] = Becomes(old, s)
      <4>1. app' = AppAfter(old, s)
        BY ReceiveIs
      <4>2. Refuses(old, s) => app' = old /\ old[k].parts = {}
        BY <4>1, <1>1, AppAfterIs
      <4> QED
        BY <2>2, <4>1, <4>2, <1>1, AppAfterIs
    <3>2. Incomplete(old[k].parts, Total[s[1]])
      BY <1>1, <1>2, SentenceIs
    <3>3. /\ app'[k].age = g.age /\ app'[k].parts = g.parts \cup {s}
          /\ ~Conflicts(g, s) /\ g.parts # {}
          /\ Cardinality(app'[k].parts) < Total[s[1]]
      BY <1>1, <2>2, <3>1, <3>2, BecomesIs
    <3>4. CASE s[2] = 1
      <4>1. g = [age |-> 0, parts |-> {s}]
        BY <3>4 DEF Started
      <4>2. since'[k] = {s} /\ waited'[k] = 0
        <5>1. waited' = [waited EXCEPT ![k] = 0]
          BY <3>4, ReceiveIs
        <5>2. since' = [since EXCEPT ![k] = {s}]
          BY <3>4, ReceiveIs
        <5> QED
          BY <5>1, <5>2, <1>1 DEF AppInv, AppShape
      <4> QED
        BY <3>3, <3>4, <4>1, <4>2, SentenceIs DEF Distinct, Begun, Incomplete
    <3>5. CASE s[2] # 1
      <4>1. g = old[k]
        BY <3>5 DEF Started
      <4>2. since'[k] = since[k] \cup {s} /\ waited'[k] = waited[k]
        BY <3>5, <1>1, ReceiveIs DEF AppInv, AppShape
      <4>3. \A t \in g.parts : t[2] = s[2] => t = s
        BY <3>3 DEF Conflicts
      <4>4. Distinct(app'[k].parts)
        BY <3>3, <4>1, <4>3, <1>1, <1>2 DEF Distinct
      <4>5. Begun(app'[k].parts)
        BY <3>3, <4>1, <1>1, <1>2 DEF Begun
      <4> QED
        BY <3>3, <4>1, <4>2, <4>4, <4>5, <1>1, <1>2, SentenceIs DEF Incomplete
    <3> QED
      BY <3>4, <3>5
  <2> QED
    BY <2>1, <2>2
<1>6. AppParts'
  BY <1>4, <1>5 DEF AppParts
<1>7. NoStaleParts'
  BY <1>4, <1>5 DEF NoStaleParts
<1> QED
  BY <1>6, <1>7

\* The table stays within its limit: only a message that is new to it adds a
\* group, and only where there is room.
LEMMA ReceiveTable ==
    ASSUME AppInv, NEW s \in Sentences, Receive(s)
    PROVE  AppTable'
<1> DEFINE k == GroupKey(s[1])
           old == Alive(app)
<1>1. /\ old \in [GroupKeys -> Group] /\ k \in GroupKeys
      /\ IsFiniteSet(Open(old)) /\ Cardinality(Open(old)) \in Nat /\ Cardinality(Open(old)) <= MaxGroups
  <2>1. old \in [GroupKeys -> Group] /\ Open(old) \in SUBSET Open(app)
    BY AliveIs DEF AppInv
  <2>2. IsFiniteSet(Open(app)) /\ Cardinality(Open(app)) <= MaxGroups /\ Cardinality(Open(app)) \in Nat
    BY FS_CardinalityType DEF AppInv, AppTable
  <2>3. IsFiniteSet(Open(old)) /\ Cardinality(Open(old)) <= Cardinality(Open(app))
    BY <2>1, <2>2, FS_Subset
  <2>4. Cardinality(Open(old)) \in Nat
    BY <2>3, FS_CardinalityType
  <2> QED
    BY <2>1, <2>2, <2>3, <2>4, SentenceIs, Constants
<1>2. app' = AppAfter(old, s)
  BY ReceiveIs
<1>3. CASE Open(app') \subseteq Open(old)
  <2>1. IsFiniteSet(Open(app')) /\ Cardinality(Open(app')) <= Cardinality(Open(old))
    BY <1>1, <1>3, FS_Subset
  <2>2. Cardinality(Open(app')) \in Nat
    BY <2>1, FS_CardinalityType
  <2> QED
    BY <2>1, <2>2, <1>1, Constants DEF AppTable
<1>4. CASE ~(Open(app') \subseteq Open(old))
  <2>1. Open(app') = Open(old) \cup {k} /\ k \notin Open(old) /\ ~Refuses(old, s)
    <3>1. \A j \in GroupKeys : j # k => app'[j] = old[j]
      BY <1>1, <1>2, AppAfterIs
    <3>2. Refuses(old, s) => app' = old
      BY <1>1, <1>2, AppAfterIs
    <3> QED
      BY <3>1, <3>2, <1>1, <1>4 DEF Open
  <2>2. s[2] = 1
    <3> SUFFICES ASSUME s[2] # 1 PROVE FALSE
      OBVIOUS
    <3>1. app'[k] = Becomes(old, s)
      BY <1>1, <1>2, <2>1, AppAfterIs
    <3>2. Started(old, s).parts = {}
      BY <1>1, <2>1 DEF Started, Open
    <3>3. app'[k].parts = {}
      BY <3>1, <3>2 DEF Becomes, NoGroup
    <3> QED
      BY <3>3, <2>1 DEF Open
  <2>3. Cardinality(Open(old)) < MaxGroups
    BY <2>1, <2>2, <1>1, Constants DEF Refuses
  <2>4. IsFiniteSet(Open(app')) /\ Cardinality(Open(app')) = Cardinality(Open(old)) + 1
    BY <1>1, <2>1, FS_AddElement
  <2> QED
    BY <2>3, <2>4, <1>1, Constants DEF AppTable
<1> QED
  BY <1>3, <1>4

\* Time passes by each group and by what is remembered about it alike.
LEMMA TickKeepsApp ==
    ASSUME AppInv, Tick
    PROVE  AppInv'
<1>1. /\ app' = [k \in GroupKeys |-> Older(app[k], Ttl + 1)]
      /\ waited' = [k \in GroupKeys |-> IF waited[k] > Ttl THEN waited[k] ELSE waited[k] + 1]
      /\ UNCHANGED <<since, refused>>
  BY DEF Tick
<1>2. \A k \in GroupKeys : /\ app[k] \in Group /\ app[k].age \in Nat /\ app[k].age <= Ttl + 1
                           /\ waited[k] \in Nat /\ waited[k] <= Ttl + 1
  BY Constants DEF AppInv, AppShape, Group, Ages
<1>3. \A k \in GroupKeys :
        /\ app'[k] \in Group /\ app'[k].parts = app[k].parts
        /\ app'[k].age = IF app[k].age < Ttl + 1 THEN app[k].age + 1 ELSE app[k].age
  BY <1>1, <1>2, Constants DEF Older, Group, Ages
<1>4. \A k \in GroupKeys : waited'[k] \in Ages
  BY <1>1, <1>2, Constants DEF Ages
<1>5. AppShape'
  BY <1>1, <1>3, <1>4 DEF AppInv, AppShape
<1>6. AppParts'
  BY <1>3 DEF AppInv, AppParts
<1>7. Open(app') = Open(app)
  BY <1>3 DEF Open
<1>8. \A k \in GroupKeys : app[k].age = waited[k] => app'[k].age = waited'[k]
  BY <1>1, <1>2, <1>3, Constants
<1>9. NoStaleParts'
  BY <1>1, <1>3, <1>8 DEF AppInv, NoStaleParts
<1> QED
  BY <1>5, <1>6, <1>7, <1>9 DEF AppInv, AppTable

\* The invariant of the server's groups holds in every state.
LEMMA AppInvariant == Spec => []AppInv
<1>1. Init => AppInv
  <2> SUFFICES ASSUME Init PROVE AppInv
    OBVIOUS
  <2>1. 0 \in Ages
    BY Constants DEF Ages
  <2>2. \A k \in GroupKeys : app[k] = [age |-> 0, parts |-> {}]
    BY DEF Init, NoGroup
  <2>3. AppShape
    <3>1. app \in [GroupKeys -> Group]
      BY <2>1 DEF Init, NoGroup, Group
    <3>2. \A k \in GroupKeys : IsFiniteSet(app[k].parts)
      BY <2>2, FS_EmptySet
    <3>3. waited \in [GroupKeys -> Ages] /\ since \in [GroupKeys -> SUBSET Sentences] /\ refused = {}
      BY <2>1 DEF Init
    <3> QED
      BY <3>1, <3>2, <3>3 DEF AppShape
  <2>4. Open(app) = {}
    BY <2>2 DEF Open
  <2>5. AppTable
    BY <2>4, FS_EmptySet, Constants DEF AppTable
  <2>6. AppParts /\ NoStaleParts
    BY <2>2 DEF AppParts, Distinct, Begun, Incomplete, NoStaleParts
  <2> QED
    BY <2>3, <2>5, <2>6 DEF AppInv
<1>2. AppInv /\ [Next]_vars => AppInv'
  <2>1. CASE UNCHANGED vars
    BY <2>1 DEF vars, AppInv, AppShape, AppParts, AppTable, Open, NoStaleParts
  <2> QED
    BY <2>1, TickKeepsApp, ReceiveShape, ReceiveParts, ReceiveTable DEF Next, AppInv
<1> QED
  BY <1>1, <1>2, PTL DEF Spec

\* No group of the server holds a sentence from before the first one of its
\* message, nor lives on that message's time (parser.py:236-247).
THEOREM NothingStale == Spec => []NoStaleParts
<1>1. AppInv => NoStaleParts
  BY DEF AppInv
<1> QED
  BY AppInvariant, <1>1, PTL

-----------------------------------------------------------------------------
(* Sentences 1 to n of a message, as a sequence.                           *)
Numbered(p) == \A i \in 1..Len(p) : p[i][2] = i

\* There are as many as the sequence is long.
LEMMA NumberedCount ==
    ASSUME NEW p \in Seq(Sentences), Numbered(p)
    PROVE  IsFiniteSet(ToSet(p)) /\ Cardinality(ToSet(p)) = Len(p)
<1> DEFINE f == [i \in 1..Len(p) |-> p[i]]
<1>1. Len(p) \in Nat /\ ToSet(p) = {p[i] : i \in 1..Len(p)}
  BY DEF ToSet
<1>2. f \in [1..Len(p) -> ToSet(p)]
  BY <1>1
<1>3. \A i, j \in 1..Len(p) : f[i] = f[j] => i = j
  BY DEF Numbered
<1>4. \A x \in ToSet(p) : \E i \in 1..Len(p) : f[i] = x
  BY <1>1
<1>5. ExistsBijection(1..Len(p), ToSet(p))
  <2> HIDE DEF f
  <2>1. f \in Bijection(1..Len(p), ToSet(p))
    BY <1>2, <1>3, <1>4 DEF Bijection, Injection, Surjection, IsInjective
  <2> QED
    BY <2>1 DEF ExistsBijection
<1>6. IsFiniteSet(1..Len(p)) /\ Cardinality(1..Len(p)) = Len(p)
  <2>1. /\ IsFiniteSet(1..Len(p))
        /\ Cardinality(1..Len(p)) = IF 1 > Len(p) THEN 0 ELSE Len(p) - 1 + 1
    BY <1>1, FS_Interval
  <2> QED
    BY <2>1, <1>1
<1> QED
  BY <1>5, <1>6, FS_Bijection

\* One more sentence.
LEMMA OneMore ==
    ASSUME NEW p \in Seq(Sentences), Numbered(p), NEW s \in Sentences, s[2] = Len(p) + 1
    PROVE  /\ Append(p, s) \in Seq(Sentences) /\ Numbered(Append(p, s))
           /\ ToSet(Append(p, s)) = ToSet(p) \cup {s} /\ Len(Append(p, s)) = Len(p) + 1
<1>1. /\ Append(p, s) \in Seq(Sentences) /\ Len(Append(p, s)) = Len(p) + 1 /\ Len(p) \in Nat
      /\ \A i \in 1..Len(p) : Append(p, s)[i] = p[i]
      /\ Append(p, s)[Len(p) + 1] = s
  OBVIOUS
<1>2. 1..(Len(p) + 1) = (1..Len(p)) \cup {Len(p) + 1}
  BY <1>1
<1>3. ToSet(p) = {p[i] : i \in 1..Len(p)}
  BY DEF ToSet
<1>4. ToSet(Append(p, s)) = {Append(p, s)[i] : i \in 1..(Len(p) + 1)}
  BY <1>1 DEF ToSet
<1>5. ToSet(Append(p, s)) = ToSet(p) \cup {s}
  BY <1>1, <1>2, <1>3, <1>4
<1>6. Numbered(Append(p, s))
  BY <1>1, <1>2 DEF Numbered
<1> QED
  BY <1>1, <1>5, <1>6

\* The server begins with the first sentence what it does not refuse.
LEMMA ServerBegins ==
    ASSUME AppInv, NEW s \in Sentences, Receive(s), s[2] = 1, ~Refuses(Alive(app), s)
    PROVE  app'[GroupKey(s[1])].parts = {s} /\ waited'[GroupKey(s[1])] = 0
<1> DEFINE k == GroupKey(s[1])
           old == Alive(app)
<1>1. old \in [GroupKeys -> Group] /\ k \in GroupKeys
  BY AliveIs, SentenceIs DEF AppInv
<1>2. app'[k] = Becomes(old, s)
  <2>1. app' = AppAfter(old, s)
    BY ReceiveIs
  <2> QED
    BY <1>1, <2>1, AppAfterIs
<1>3. Started(old, s) = [age |-> 0, parts |-> {s}]
  BY DEF Started
<1>4. Cardinality({s}) = 1
  BY FS_Singleton
<1>5. ~Conflicts(Started(old, s), s)
  BY <1>3, SentenceIs DEF Conflicts
<1>6. app'[k].parts = {s}
  BY <1>2, <1>3, <1>4, <1>5, SentenceIs DEF Becomes
<1>7. waited' = [waited EXCEPT ![k] = 0]
  BY ReceiveIs
<1> QED
  BY <1>1, <1>6, <1>7 DEF AppInv, AppShape

\* A group that holds sentences and has not expired is there.
LEMMA StillThere ==
    ASSUME AppInv, NEW k \in GroupKeys, app[k].parts # {}, waited[k] <= Ttl
    PROVE  Alive(app)[k] = app[k]
BY AliveIs DEF AppInv, NoStaleParts

\* It takes the sentence that follows, unless that is the last one.
LEMMA ServerGoesOn ==
    ASSUME AppInv, NEW s \in Sentences, Receive(s), s[2] < Total[s[1]],
           NEW p \in Seq(Sentences), p # <<>>, Numbered(p), s[2] = Len(p) + 1,
           app[GroupKey(s[1])].parts = ToSet(p), waited[GroupKey(s[1])] <= Ttl
    PROVE  /\ app'[GroupKey(s[1])].parts = ToSet(Append(p, s))
           /\ waited' = waited /\ refused' = refused
<1> DEFINE k == GroupKey(s[1])
           old == Alive(app)
<1>1. old \in [GroupKeys -> Group] /\ k \in GroupKeys /\ Len(p) \in Nat \ {0} /\ s[2] > 1 /\ s[2] # 1
  BY AliveIs, SentenceIs DEF AppInv
<1>2. ToSet(p) # {} /\ \A t \in ToSet(p) : \E i \in 1..Len(p) : t = p[i]
  BY <1>1 DEF ToSet
<1>3. old[k] = app[k]
  BY <1>1, <1>2, StillThere
<1>4. Started(old, s) = app[k]
  BY <1>1, <1>3 DEF Started
<1>5. app'[k] = Becomes(old, s)
  <2>1. ~Refuses(old, s)
    BY <1>1 DEF Refuses
  <2>2. app' = AppAfter(old, s)
    BY ReceiveIs
  <2> QED
    BY <1>1, <2>1, <2>2, AppAfterIs
<1>6. ~Conflicts(app[k], s)
  <2>1. p[Len(p)] \in ToSet(p) /\ p[Len(p)][2] = s[2] - 1
    BY <1>1 DEF ToSet, Numbered
  <2>2. \A t \in ToSet(p) : t[2] # s[2]
    BY <1>1, <1>2 DEF Numbered
  <2> QED
    BY <2>1, <2>2 DEF Conflicts
<1>7. Cardinality(ToSet(p) \cup {s}) # Total[s[1]]
  <2>1. Append(p, s) \in Seq(Sentences) /\ Numbered(Append(p, s)) /\ Len(Append(p, s)) = s[2]
        /\ ToSet(Append(p, s)) = ToSet(p) \cup {s}
    BY OneMore
  <2>2. Cardinality(ToSet(Append(p, s))) = s[2]
    BY <2>1, NumberedCount
  <2> QED
    BY <2>1, <2>2, SentenceIs
<1>8. app'[k].parts = ToSet(p) \cup {s}
  <2>1. app[k] \in Group
    BY <1>1 DEF AppInv, AppShape
  <2>2. app'[k] = [app[k] EXCEPT !.parts = ToSet(p) \cup {s}]
    BY <1>2, <1>4, <1>5, <1>6, <1>7 DEF Becomes
  <2> QED
    BY <2>1, <2>2 DEF Group
<1> QED
  BY <1>1, <1>8, OneMore, ReceiveIs

\* The groups of other keys stay as they are.
LEMMA OthersStay ==
    ASSUME AppInv, NEW s \in Sentences, Receive(s), NEW k \in GroupKeys, k # GroupKey(s[1])
    PROVE  /\ waited'[k] = waited[k] /\ (k \in refused' <=> k \in refused) /\ since'[k] = since[k]
           /\ app[k].parts # {} /\ waited[k] <= Ttl => app'[k].parts = app[k].parts
<1> DEFINE old == Alive(app)
<1>1. old \in [GroupKeys -> Group] /\ GroupKey(s[1]) \in GroupKeys
  BY AliveIs, SentenceIs DEF AppInv
<1>2. waited'[k] = waited[k] /\ since'[k] = since[k]
  BY <1>1, ReceiveIs DEF AppInv, AppShape
<1>3. k \in refused' <=> k \in refused
  BY ReceiveIs
<1>4. app' = AppAfter(old, s)
  BY ReceiveIs
<1>5. app'[k] = old[k]
  BY <1>1, <1>4, AppAfterIs
<1> QED
  BY <1>2, <1>3, <1>5, StillThere

-----------------------------------------------------------------------------
(* Messages whose sentences come in order.                                 *)
SteadyInv ==
    /\ steady \in [Messages -> Nat]
    /\ \A m \in Messages :
        steady[m] < Total[m] /\ (steady[m] > 0 => waited[GroupKey(m)] <= Ttl)
    /\ SteadyMessagesKept

FirstOf(m, n) == [i \in 1..n |-> <<m, i>>]

\* The first n sentences of a message.
LEMMA FirstOfIs ==
    ASSUME NEW m \in Messages, NEW n \in Nat, n <= Total[m]
    PROVE  /\ FirstOf(m, n) \in Seq(Sentences) /\ Numbered(FirstOf(m, n)) /\ Len(FirstOf(m, n)) = n
           /\ ToSet(FirstOf(m, n)) = {<<m, i>> : i \in 1..n}
<1>1. \A i \in 1..n : <<m, i>> \in Sentences
  BY Constants DEF Sentences
<1>2. /\ FirstOf(m, n) \in Seq(Sentences) /\ Len(FirstOf(m, n)) = n
      /\ \A i \in 1..n : FirstOf(m, n)[i] = <<m, i>>
  BY <1>1 DEF FirstOf
<1> QED
  BY <1>2 DEF Numbered, ToSet, FirstOf

\* A sentence that is in order lengthens its message, and disturbs no other.
LEMMA ReceiveKeepsSteady ==
    ASSUME AppInv, SteadyInv, NEW s \in Sentences, Receive(s)
    PROVE  SteadyInv'
<1> DEFINE k == GroupKey(s[1])
<1>1. steady' = [m \in Messages |->
               IF GroupKey(m) # k THEN steady[m]
               ELSE IF m = s[1] /\ s[2] = 1 /\ ~Refuses(Alive(app), s) THEN 1
               ELSE IF m = s[1] /\ steady[m] = s[2] - 1 /\ 1 < s[2] /\ s[2] < Total[m] THEN s[2]
               ELSE 0]
  BY DEF Receive, Alive
<1>2. ASSUME NEW m \in Messages
      PROVE  /\ steady'[m] \in Nat /\ steady'[m] < Total[m]
             /\ steady'[m] > 0 => waited'[GroupKey(m)] <= Ttl
             /\ steady'[m] > 0 => app'[GroupKey(m)].parts = {<<m, i>> : i \in 1..steady'[m]}
  <2>1. /\ steady[m] \in Nat /\ steady[m] < Total[m] /\ Total[m] \in 2..9 /\ GroupKey(m) \in GroupKeys
        /\ steady[m] > 0 => /\ waited[GroupKey(m)] <= Ttl
                            /\ app[GroupKey(m)].parts = {<<m, i>> : i \in 1..steady[m]}
    BY <1>2, Constants DEF SteadyInv, SteadyMessagesKept, GroupKeys
  <2>2. CASE GroupKey(m) # k
    <3>1. steady'[m] = steady[m] /\ waited'[GroupKey(m)] = waited[GroupKey(m)]
      BY <1>1, <2>1, <2>2, OthersStay
    <3>2. steady[m] > 0 => app'[GroupKey(m)].parts = app[GroupKey(m)].parts
      <4> SUFFICES ASSUME steady[m] > 0 PROVE app'[GroupKey(m)].parts = app[GroupKey(m)].parts
        OBVIOUS
      <4>1. <<m, 1>> \in app[GroupKey(m)].parts
        BY <2>1
      <4> QED
        BY <4>1, <2>1, <2>2, OthersStay
    <3> QED
      BY <2>1, <3>1, <3>2
  <2>3. CASE m = s[1] /\ s[2] = 1 /\ ~Refuses(Alive(app), s)
    <3>1. steady'[m] = 1
      BY <1>1, <2>3
    <3>2. app'[k].parts = {s} /\ waited'[k] = 0
      BY <2>3, ServerBegins
    <3>3. s = <<m, 1>>
      BY <2>3, SentenceIs
    <3> QED
      BY <2>1, <2>3, <3>1, <3>2, <3>3, Constants
  <2>4. CASE m = s[1] /\ steady[m] = s[2] - 1 /\ 1 < s[2] /\ s[2] < Total[m]
    <3>1. steady'[m] = s[2]
      BY <1>1, <2>4, SentenceIs
    <3>2. DEFINE p == FirstOf(m, steady[m])
    <3>3. /\ p \in Seq(Sentences) /\ Numbered(p) /\ Len(p) = steady[m] /\ p # <<>>
          /\ ToSet(p) = app[k].parts /\ s[2] = Len(p) + 1
      <4>1. p \in Seq(Sentences) /\ Numbered(p) /\ Len(p) = steady[m] /\ ToSet(p) = {<<m, i>> : i \in 1..steady[m]}
        <5>1. steady[m] \in Nat /\ steady[m] <= Total[m]
          BY <2>1
        <5> QED
          BY <5>1, <1>2, FirstOfIs
      <4> QED
        BY <4>1, <2>1, <2>4, SentenceIs
    <3>4. app'[k].parts = ToSet(Append(p, s)) /\ waited' = waited
      <4> HIDE DEF p
      <4> QED
        BY <2>1, <2>4, <3>3, SentenceIs, ServerGoesOn
    <3>5. ToSet(Append(p, s)) = {<<m, i>> : i \in 1..s[2]}
      <4>1. ToSet(Append(p, s)) = ToSet(p) \cup {s}
        <5> HIDE DEF p
        <5> QED
          BY <3>3, OneMore
      <4>2. s = <<m, s[2]>> /\ s[2] \in Nat
        BY <2>4, SentenceIs
      <4>3. 1..s[2] = (1..steady[m]) \cup {s[2]}
        BY <4>2, <2>1, <2>4
      <4> QED
        BY <4>1, <4>2, <4>3, <2>1, <2>4, <3>3
    <3> QED
      BY <2>1, <2>4, <3>1, <3>4, <3>5, SentenceIs
  <2>5. CASE /\ GroupKey(m) = k /\ ~(m = s[1] /\ s[2] = 1 /\ ~Refuses(Alive(app), s))
             /\ ~(m = s[1] /\ steady[m] = s[2] - 1 /\ 1 < s[2] /\ s[2] < Total[m])
    BY <1>1, <2>1, <2>5
  <2> QED
    BY <2>2, <2>3, <2>4, <2>5
<1>3. steady' \in [Messages -> Nat]
  BY <1>1, <1>2
<1> QED
  BY <1>2, <1>3 DEF SteadyInv, SteadyMessagesKept

\* A message whose time is over is not waited for.
LEMMA TickKeepsSteady ==
    ASSUME AppInv, SteadyInv, Tick
    PROVE  SteadyInv'
<1>1. /\ app' = [k \in GroupKeys |-> Older(app[k], Ttl + 1)]
      /\ waited' = [k \in GroupKeys |-> IF waited[k] > Ttl THEN waited[k] ELSE waited[k] + 1]
      /\ steady' = [m \in Messages |-> IF waited[GroupKey(m)] >= Ttl THEN 0 ELSE steady[m]]
  BY DEF Tick
<1>2. \A k \in GroupKeys : app'[k].parts = app[k].parts /\ waited[k] \in Nat
  BY <1>1, Constants DEF Older, AppInv, AppShape, Group, Ages
<1>3. \A m \in Messages : GroupKey(m) \in GroupKeys /\ Total[m] \in 2..9
  BY Constants DEF GroupKeys
<1>4. \A m \in Messages : /\ steady'[m] \in Nat /\ steady'[m] < Total[m]
                          /\ steady'[m] > 0 => steady'[m] = steady[m] /\ waited'[GroupKey(m)] <= Ttl
  BY <1>1, <1>2, <1>3, Constants DEF SteadyInv
<1>5. steady' \in [Messages -> Nat]
  BY <1>1, <1>4
<1>6. SteadyMessagesKept'
  BY <1>2, <1>3, <1>4 DEF SteadyInv, SteadyMessagesKept
<1> QED
  BY <1>4, <1>5, <1>6 DEF SteadyInv

\* A message that was taken when it began is kept while its sentences come in
\* order, however many others there are (parser.py:236-247).
THEOREM SteadyAreKept == Spec => []SteadyMessagesKept
<1>1. Init => SteadyInv
  BY Constants DEF Init, SteadyInv, SteadyMessagesKept
<1>2. AppInv /\ SteadyInv /\ [Next]_vars => SteadyInv'
  <2>1. CASE UNCHANGED vars
    BY <2>1 DEF vars, SteadyInv, SteadyMessagesKept
  <2> QED
    BY <2>1, TickKeepsSteady, ReceiveKeepsSteady DEF Next
<1>3. SteadyInv => SteadyMessagesKept
  BY DEF SteadyInv
<1> QED
  BY <1>1, <1>2, <1>3, AppInvariant, PTL DEF Spec

-----------------------------------------------------------------------------
(* What a stricter receiver holds and what the server holds.               *)
Agrees(parts, total, age, refusals) ==
    \A k \in GroupKeys :
        Comparable(parts, total, k, refusals) => waited[k] = age /\ app[k].parts = ToSet(parts)

\* The same after a step, of the same parts.
AgreesNext(parts, total, age, refusals) ==
    \A k \in GroupKeys :
        /\ total = k[2] /\ \A s \in ToSet(parts) : Key[s[1]] = k[1]
        /\ k \notin refused' /\ since'[k] \cap refusals = {}
        => waited'[k] = age /\ app'[k].parts = ToSet(parts)

Holds(p, total) == Numbered(p) /\ Len(p) < total

\* A group that holds sentences is one of sentences.
LEMMA NotEmpty ==
    ASSUME NEW p \in Seq(Sentences), p # <<>>
    PROVE  ToSet(p) # {} /\ ToSet(p) \subseteq Sentences
<1>1. 1 \in DOMAIN p
  OBVIOUS
<1> QED
  BY <1>1 DEF ToSet

\* A sentence of another key, and one that the receiver refused to read, which
\* the server then holds among those of its key.
LEMMA NotConcerned ==
    ASSUME AppInv, NEW s \in Sentences, Receive(s), NEW p \in Seq(Sentences), p # <<>>,
           NEW total, NEW age \in Nat, age <= Ttl, NEW R, Agrees(p, total, age, R),
           s \in R \/ ~(total = Total[s[1]] /\ \A t \in ToSet(p) : Key[t[1]] = Key[s[1]])
    PROVE  AgreesNext(p, total, age, R)
<1> SUFFICES ASSUME NEW k \in GroupKeys, total = k[2], \A t \in ToSet(p) : Key[t[1]] = k[1],
                    k \notin refused', since'[k] \cap R = {}
             PROVE  waited'[k] = age /\ app'[k].parts = ToSet(p)
  BY DEF AgreesNext
<1>1. k # GroupKey(s[1])
  <2> SUFFICES ASSUME k = GroupKey(s[1]) PROVE FALSE
    OBVIOUS
  <2>1. k[1] = Key[s[1]] /\ k[2] = Total[s[1]] /\ k \in GroupKeys
    BY SentenceIs
  <2>2. since' = [since EXCEPT ![k] = IF s[2] = 1 THEN {s} ELSE @ \cup {s}]
    BY ReceiveIs
  <2>3. s \in since'[k]
    BY <2>1, <2>2 DEF AppInv, AppShape
  <2> QED
    BY <2>1, <2>3
<1>2. /\ waited'[k] = waited[k] /\ k \notin refused /\ since'[k] = since[k]
      /\ app[k].parts # {} /\ waited[k] <= Ttl => app'[k].parts = app[k].parts
  BY <1>1, OthersStay
<1>3. waited[k] = age /\ app[k].parts = ToSet(p)
  BY <1>2 DEF Agrees, Comparable
<1> QED
  BY <1>2, <1>3, NotEmpty

\* A first sentence that the receiver begins with.
LEMMA BothBegin ==
    ASSUME AppInv, NEW s \in Sentences, Receive(s), s[2] = 1, NEW R
    PROVE  AgreesNext(<<s>>, Total[s[1]], 0, R)
<1> SUFFICES ASSUME NEW k \in GroupKeys, Total[s[1]] = k[2], \A t \in ToSet(<<s>>) : Key[t[1]] = k[1],
                    k \notin refused'
             PROVE  waited'[k] = 0 /\ app'[k].parts = ToSet(<<s>>)
  BY DEF AgreesNext
<1>1. ToSet(<<s>>) = {s}
  BY DEF ToSet
<1>2. k = GroupKey(s[1])
  BY <1>1, KeysAre DEF GroupKey
<1>3. ~Refuses(Alive(app), s)
  <2>1. ~(s[2] > 1)
    OBVIOUS
  <2> QED
    BY <2>1, <1>2, ReceiveIs
<1> QED
  BY <1>1, <1>2, <1>3, ServerBegins

\* A sentence that both take.
LEMMA BothGoOn ==
    ASSUME AppInv, NEW s \in Sentences, Receive(s), s[2] < Total[s[1]],
           NEW p \in Seq(Sentences), p # <<>>, Numbered(p), s[2] = Len(p) + 1,
           NEW age \in Nat, age <= Ttl, NEW R, Agrees(p, Total[s[1]], age, R)
    PROVE  AgreesNext(Append(p, s), Total[s[1]], age, R)
<1> SUFFICES ASSUME NEW k \in GroupKeys, Total[s[1]] = k[2],
                    \A t \in ToSet(Append(p, s)) : Key[t[1]] = k[1],
                    k \notin refused', since'[k] \cap R = {}
             PROVE  waited'[k] = age /\ app'[k].parts = ToSet(Append(p, s))
  BY DEF AgreesNext
<1>1. ToSet(Append(p, s)) = ToSet(p) \cup {s}
  BY OneMore
<1>2. k = GroupKey(s[1])
  BY <1>1, KeysAre DEF GroupKey
<1>3. s[2] > 1 /\ s[2] # 1
  BY SentenceIs
<1>4. refused' = refused /\ since'[k] = since[k] \cup {s} /\ waited' = waited
  BY <1>2, <1>3, ReceiveIs DEF AppInv, AppShape
<1>5. waited[k] = age /\ app[k].parts = ToSet(p)
  BY <1>1, <1>4 DEF Agrees, Comparable
<1>6. app'[GroupKey(s[1])].parts = ToSet(Append(p, s))
  BY <1>2, <1>5, ServerGoesOn
<1> QED
  BY <1>2, <1>4, <1>5, <1>6

\* Both grow old.
LEMMA BothAge ==
    ASSUME AppInv, Tick, NEW p, NEW total, NEW age \in Nat, age < Ttl, NEW R, Agrees(p, total, age, R)
    PROVE  AgreesNext(p, total, age + 1, R)
<1>1. /\ app' = [k \in GroupKeys |-> Older(app[k], Ttl + 1)]
      /\ waited' = [k \in GroupKeys |-> IF waited[k] > Ttl THEN waited[k] ELSE waited[k] + 1]
      /\ refused' = refused /\ since' = since
  BY DEF Tick
<1>2. \A k \in GroupKeys : app'[k].parts = app[k].parts
  BY <1>1, Constants DEF Older, AppInv, AppShape, Group, Ages
<1>3. \A k \in GroupKeys : waited[k] = age => waited'[k] = age + 1
  BY <1>1, Constants
<1> QED
  BY <1>1, <1>2, <1>3 DEF Agrees, AgreesNext, Comparable

-----------------------------------------------------------------------------
(* The iPad.                                                               *)
Assembly == [age : 0..Ttl, parts : Seq(Sentences)]

PadInv ==
    /\ pad \in [PadGroups -> Assembly]
    /\ \A j \in PadGroups :
        /\ Holds(pad[j].parts, j[2]) /\ \A t \in ToSet(pad[j].parts) : PadGroup(t[1]) = j
        /\ pad[j].parts # <<>> /\ pad[j].age < Ttl =>
             Agrees(pad[j].parts, j[2], pad[j].age, PadRejects)

\* What is left of the iPad's table when a sentence arrives.
Recent == [j \in PadGroups |-> IF pad[j].age < Ttl THEN pad[j] ELSE NoAssembly]

LEMMA RecentIs ==
    ASSUME PadInv
    PROVE  /\ Recent \in [PadGroups -> Assembly] /\ NoAssembly \in Assembly /\ NoAssembly.parts = <<>>
           /\ \A j \in PadGroups :
                /\ Holds(Recent[j].parts, j[2]) /\ Holds(NoAssembly.parts, j[2])
                /\ \A t \in ToSet(Recent[j].parts) : PadGroup(t[1]) = j
                /\ Recent[j].parts # <<>> =>
                     /\ Recent[j].age < Ttl
                     /\ Agrees(Recent[j].parts, j[2], Recent[j].age, PadRejects)
<1>1. NoAssembly \in Assembly /\ NoAssembly.parts = <<>>
  BY Constants DEF NoAssembly, Assembly
<1>2. \A j \in PadGroups : Holds(NoAssembly.parts, j[2])
  BY <1>1, PadGroupsAre DEF Holds, Numbered
<1>3. Recent \in [PadGroups -> Assembly]
  BY <1>1 DEF Recent, PadInv
<1>4. \A j \in PadGroups : (Recent[j] = pad[j] /\ pad[j].age < Ttl) \/ Recent[j] = NoAssembly
  BY DEF Recent
<1>5. ToSet(NoAssembly.parts) = {}
  BY <1>1 DEF ToSet
<1> QED
  BY <1>1, <1>2, <1>3, <1>4, <1>5 DEF PadInv

\* Whether the sentence is the next one of the group of its key.
Follows(p, s) == s[2] # 1 /\ s[2] = Len(p) + 1 /\ s[2] < Total[s[1]]

\* What one sentence makes of the iPad's table.
LEMMA PadAfterIs ==
    ASSUME PadInv, NEW s \in Sentences, Receive(s)
    PROVE  /\ pad' = [j \in PadGroups |-> pad'[j]]
           /\ \A j \in PadGroups :
                \/ pad'[j] = NoAssembly
                \/ (s \in PadRejects \/ j # PadGroup(s[1])) /\ pad'[j] = Recent[j]
                \/ j = PadGroup(s[1]) /\ s[2] = 1 /\ pad'[j] = [age |-> 0, parts |-> <<s>>]
                \/ /\ j = PadGroup(s[1]) /\ Follows(Recent[j].parts, s)
                   /\ pad'[j] = [Recent[j] EXCEPT !.parts = Append(Recent[j].parts, s)]
<1> DEFINE g == PadGroup(s[1])
           full == Cardinality({j \in PadGroups : Recent[j].parts # <<>>}) >= MaxGroups
           parts == Append(Recent[g].parts, s)
           longer == [Recent[g] EXCEPT !.parts = parts]
           new == IF s[2] = 1 \/ s[2] # Len(parts) \/ s[2] = g[2] \/ parts \in Oversized THEN NoAssembly
                  ELSE longer
<1>1. pad' = PadAfter(Recent, s)
  BY DEF Receive, Recent
<1>2. Recent \in [PadGroups -> Assembly] /\ g \in PadGroups /\ g[2] = Total[s[1]] /\ s[2] <= Total[s[1]]
      /\ s[2] \in Nat /\ Total[s[1]] \in Nat
  BY RecentIs, SentenceIs, PadGroupsAre
<1>3. Len(parts) = Len(Recent[g].parts) + 1
  BY <1>2 DEF Assembly
<1>4. CASE s \in PadRejects
  <2>1. pad' = Recent
    BY <1>1, <1>4 DEF PadAfter
  <2> QED
    BY <2>1, <1>2, <1>4
<1>5. CASE s \notin PadRejects /\ s[2] = 1 /\ Recent[g].parts = <<>>
  <2>1. pad' = [j \in PadGroups |-> IF j = g THEN [age |-> 0, parts |-> <<s>>]
                                    ELSE IF full THEN NoAssembly ELSE Recent[j]]
    BY <1>1, <1>5 DEF PadAfter
  <2> HIDE DEF full
  <2> QED
    BY <2>1, <1>5
<1>6. CASE s \notin PadRejects /\ ~(s[2] = 1 /\ Recent[g].parts = <<>>)
  <2>1. pad' = [Recent EXCEPT ![g] = new]
    BY <1>1, <1>6 DEF PadAfter
  <2>2. new \in {NoAssembly, longer} /\ (new # NoAssembly => Follows(Recent[g].parts, s))
    <3> HIDE DEF longer, parts
    <3> QED
      BY <1>2, <1>3 DEF Follows
  <2> HIDE DEF new
  <2>3. pad' = [k \in PadGroups |-> pad'[k]] /\ pad'[g] = new
        /\ \A k \in PadGroups : k # g => pad'[k] = Recent[k]
    BY <2>1, <1>2
  <2> QED
    BY <2>2, <2>3
<1> QED
  BY <1>4, <1>5, <1>6

\* The iPad completes nothing else than the server.
LEMMA ReceiveKeepsPad ==
    ASSUME PadInv, AppInv, NEW s \in Sentences, Receive(s)
    PROVE  PadInv'
<1> DEFINE Good(j) ==
        /\ pad'[j] \in Assembly /\ Holds(pad'[j].parts, j[2])
        /\ \A t \in ToSet(pad'[j].parts) : PadGroup(t[1]) = j
        /\ pad'[j].parts # <<>> => AgreesNext(pad'[j].parts, j[2], pad'[j].age, PadRejects)
<1>1. ASSUME NEW j \in PadGroups PROVE Good(j)
  <2> DEFINE p == Recent[j].parts
             age == Recent[j].age
  <2>1. /\ Recent[j] \in Assembly /\ Holds(p, j[2]) /\ j[2] \in 2..9
        /\ \A t \in ToSet(p) : PadGroup(t[1]) = j
        /\ p # <<>> => age < Ttl /\ Agrees(p, j[2], age, PadRejects)
    BY <1>1, RecentIs, PadGroupsAre
  <2>2. p \in Seq(Sentences) /\ age \in Nat /\ Ttl \in Nat
    BY <2>1, Constants DEF Assembly
  <2>3. CASE pad'[j] = NoAssembly
    <3>1. ToSet(NoAssembly.parts) = {}
      BY RecentIs DEF ToSet
    <3> QED
      BY <2>3, <3>1, RecentIs
  <2>4. CASE (s \in PadRejects \/ j # PadGroup(s[1])) /\ pad'[j] = Recent[j]
    <3> SUFFICES ASSUME p # <<>> PROVE AgreesNext(p, j[2], age, PadRejects)
      BY <2>1, <2>4
    <3>1. s \in PadRejects \/ ~(j[2] = Total[s[1]] /\ \A t \in ToSet(p) : Key[t[1]] = Key[s[1]])
      <4> SUFFICES ASSUME j # PadGroup(s[1]), j[2] = Total[s[1]], \A t \in ToSet(p) : Key[t[1]] = Key[s[1]]
                   PROVE  FALSE
        BY <2>4
      <4>1. PICK t \in ToSet(p) : TRUE
        BY <2>2, NotEmpty
      <4>2. t \in Sentences /\ PadGroup(t[1]) = j /\ Key[t[1]] = Key[s[1]]
        BY <2>1, <2>2, <4>1, NotEmpty
      <4>3. t[1] \in Messages /\ s[1] \in Messages
        BY <4>2, SentenceIs
      <4>4. PadKey[t[1]] = PadKey[s[1]]
        BY <4>2, <4>3, CoarserKeys
      <4> QED
        BY <4>2, <4>4 DEF PadGroup
    <3> HIDE DEF p, age
    <3> QED
      BY <2>1, <2>2, <3>1, NotConcerned
  <2>5. CASE j = PadGroup(s[1]) /\ s[2] = 1 /\ pad'[j] = [age |-> 0, parts |-> <<s>>]
    <3>1. pad'[j] \in Assembly /\ Holds(pad'[j].parts, j[2])
      BY <2>1, <2>5, Constants DEF Assembly, Holds, Numbered
    <3>2. ToSet(<<s>>) = {s} /\ j[2] = Total[s[1]]
      BY <2>5, SentenceIs, PadGroupsAre DEF ToSet
    <3>3. AgreesNext(<<s>>, Total[s[1]], 0, PadRejects)
      BY <2>5, BothBegin
    <3> QED
      BY <2>5, <3>1, <3>2, <3>3
  <2>6. CASE /\ j = PadGroup(s[1]) /\ Follows(p, s)
             /\ pad'[j] = [Recent[j] EXCEPT !.parts = Append(p, s)]
    <3>1. Numbered(p) /\ s[2] = Len(p) + 1 /\ s[2] < Total[s[1]]
          /\ p # <<>> /\ s[2] # 1 /\ s[2] \in 1..9 /\ j[2] = Total[s[1]]
      BY <2>1, <2>2, <2>6, SentenceIs, PadGroupsAre DEF Holds, Follows
    <3>2. /\ Append(p, s) \in Seq(Sentences) /\ Numbered(Append(p, s)) /\ Len(Append(p, s)) = s[2]
          /\ ToSet(Append(p, s)) = ToSet(p) \cup {s}
      BY <2>2, <3>1, OneMore
    <3>3. pad'[j].age = age /\ pad'[j].parts = Append(p, s) /\ pad'[j] \in Assembly
      BY <2>1, <2>6, <3>2 DEF Assembly
    <3>4. AgreesNext(Append(p, s), Total[s[1]], age, PadRejects)
      <4>1. age <= Ttl /\ Agrees(p, Total[s[1]], age, PadRejects)
        BY <2>1, <2>2, <3>1
      <4> HIDE DEF p, age
      <4> QED
        BY <2>2, <3>1, <4>1, BothGoOn
    <3>5. Holds(pad'[j].parts, j[2])
      BY <3>1, <3>2, <3>3 DEF Holds
    <3>6. \A t \in ToSet(pad'[j].parts) : PadGroup(t[1]) = j
      BY <2>1, <2>6, <3>2, <3>3
    <3> QED
      BY <3>1, <3>3, <3>4, <3>5, <3>6
  <2> QED
    BY <2>3, <2>4, <2>5, <2>6, <1>1, PadAfterIs
<1>2. pad' \in [PadGroups -> Assembly]
  BY <1>1, PadAfterIs
<1> QED
  BY <1>1, <1>2 DEF PadInv, Agrees, AgreesNext, Comparable

\* Its groups grow old as the server's do.
LEMMA TickKeepsPad ==
    ASSUME PadInv, AppInv, Tick
    PROVE  PadInv'
<1>1. pad' = [j \in PadGroups |-> Older(pad[j], Ttl)]
  BY DEF Tick
<1>2. \A j \in PadGroups :
        /\ pad[j].age \in Nat /\ pad'[j] \in Assembly /\ pad'[j].parts = pad[j].parts
        /\ pad'[j].age < Ttl => pad[j].age < Ttl /\ pad'[j].age = pad[j].age + 1
  BY <1>1, Constants DEF PadInv, Older, Assembly
<1>3. pad' \in [PadGroups -> Assembly]
  BY <1>1, <1>2
<1>4. ASSUME NEW j \in PadGroups, pad[j].parts # <<>>, pad'[j].age < Ttl
      PROVE  AgreesNext(pad[j].parts, j[2], pad'[j].age, PadRejects)
  <2>1. /\ pad[j].age \in Nat /\ pad[j].age < Ttl /\ pad'[j].age = pad[j].age + 1
        /\ Agrees(pad[j].parts, j[2], pad[j].age, PadRejects)
    BY <1>2, <1>4 DEF PadInv
  <2> QED
    BY <2>1, BothAge
<1> QED
  BY <1>2, <1>3, <1>4 DEF PadInv, Agrees, AgreesNext, Comparable

-----------------------------------------------------------------------------
(* The transmitter.                                                        *)
Entry == [key : {ModKey[m] : m \in Messages}, total : 2..9, age : 0..ModTtl, parts : Seq(Sentences)]

\* A table of groups with different keys.
ModTable(t) ==
    /\ t \in Seq(Entry) /\ Len(t) <= ModGroups
    /\ \A i, j \in DOMAIN t : t[i].key = t[j].key => i = j
    /\ \A i \in DOMAIN t :
        /\ t[i].parts # <<>> /\ Holds(t[i].parts, t[i].total)
        /\ \A s \in ToSet(t[i].parts) : ModKey[s[1]] = t[i].key

ModInv ==
    /\ ModTable(mod)
    /\ \A i \in DOMAIN mod :
        mod[i].age < ModTtl => Agrees(mod[i].parts, mod[i].total, mod[i].age, ModRejects)

\* Leaving places out of a sequence keeps the others, each once.
LEMMA KeptIs ==
    ASSUME NEW A, NEW t \in Seq(A), NEW I \in SUBSET DOMAIN t
    PROVE  /\ Kept(t, I) \in Seq(A) /\ Len(Kept(t, I)) <= Len(t)
           /\ \E e \in [DOMAIN Kept(t, I) -> I] :
                \A n \in DOMAIN Kept(t, I) :
                    /\ Kept(t, I)[n] = t[e[n]]
                    /\ \A m \in DOMAIN Kept(t, I) : e[n] = e[m] => n = m
<1> DEFINE Upto(i) == {j \in I : j <= i}
           c == Cardinality(I)
           f == [i \in I |-> Cardinality(Upto(i))]
           e == [n \in 1..c |-> CHOOSE i \in I : Cardinality(Upto(i)) = n]
<1>1. DOMAIN t = 1..Len(t) /\ Len(t) \in Nat /\ \A i \in I : i \in Nat
  OBVIOUS
<1>2. IsFiniteSet(DOMAIN t) /\ Cardinality(DOMAIN t) = Len(t)
  <2>1. /\ IsFiniteSet(1..Len(t))
        /\ Cardinality(1..Len(t)) = IF 1 > Len(t) THEN 0 ELSE Len(t) - 1 + 1
    BY <1>1, FS_Interval
  <2> QED
    BY <2>1, <1>1
<1>3. IsFiniteSet(I) /\ c \in Nat /\ c <= Len(t)
  BY <1>2, FS_Subset, FS_CardinalityType
<1>4. \A i \in I : /\ IsFiniteSet(Upto(i)) /\ Cardinality(Upto(i)) \in 1..c
  <2> TAKE i \in I
  <2>1. Upto(i) \in SUBSET I /\ i \in Upto(i)
    BY <1>1
  <2>2. IsFiniteSet(Upto(i)) /\ Cardinality(Upto(i)) <= c
    BY <1>3, <2>1, FS_Subset
  <2>3. Cardinality(Upto(i)) \in Nat /\ Cardinality(Upto(i)) # 0
    BY <2>1, <2>2, FS_CardinalityType, FS_EmptySet
  <2> QED
    BY <1>3, <2>2, <2>3
<1>5. \A i, j \in I : i < j => f[i] # f[j]
  <2> SUFFICES ASSUME NEW i \in I, NEW j \in I, i < j PROVE Cardinality(Upto(i)) # Cardinality(Upto(j))
    OBVIOUS
  <2>1. Upto(i) \in SUBSET Upto(j) /\ j \in Upto(j) /\ j \notin Upto(i)
    BY <1>1
  <2> QED
    BY <1>4, <2>1, FS_Subset
<1>6. f \in Injection(I, 1..c)
  <2>1. f \in [I -> 1..c]
    BY <1>4
  <2>2. \A i, j \in I : f[i] = f[j] => i = j
    <3> HIDE DEF f
    <3> QED
      BY <1>1, <1>5
  <2> HIDE DEF f
  <2> QED
    BY <2>1, <2>2 DEF Injection, IsInjective
<1>7. \A n \in 1..c : \E i \in I : f[i] = n
  <2>1. IsFiniteSet(1..c) /\ Cardinality(1..c) = c
    <3>1. IsFiniteSet(1..c) /\ Cardinality(1..c) = IF 1 > c THEN 0 ELSE c - 1 + 1
      <4> HIDE DEF c
      <4> QED
        BY <1>3, FS_Interval
    <3> QED
      BY <3>1, <1>3
  <2>2. f \in Surjection(I, 1..c)
    <3> HIDE DEF f
    <3> QED
      BY <1>6, <2>1, FS_Injection
  <2> HIDE DEF f
  <2> QED
    BY <2>2 DEF Surjection
<1>8. Kept(t, I) = [n \in 1..c |-> t[e[n]]]
  BY DEF Kept
<1>9. e \in [1..c -> I] /\ \A n \in 1..c : f[e[n]] = n
  <2>1. \A i \in I : f[i] = Cardinality(Upto(i))
    OBVIOUS
  <2> HIDE DEF f, Upto
  <2>2. \A n \in 1..c : e[n] \in I /\ Cardinality(Upto(e[n])) = n
    BY <1>7, <2>1
  <2> QED
    BY <2>1, <2>2
<1> HIDE DEF e, f
<1>10. Kept(t, I) \in Seq(A) /\ Len(Kept(t, I)) = c /\ DOMAIN Kept(t, I) = 1..c
  BY <1>3, <1>8, <1>9
<1>11. \A n, m \in 1..c : e[n] = e[m] => n = m
  BY <1>9
<1> QED
  BY <1>3, <1>8, <1>9, <1>10, <1>11

\* Leaving out groups leaves a table, of the others.
LEMMA KeptTable ==
    ASSUME NEW t, ModTable(t), NEW I \in SUBSET DOMAIN t
    PROVE  /\ ModTable(Kept(t, I))
           /\ \A n \in DOMAIN Kept(t, I) : \E i \in I : Kept(t, I)[n] = t[i]
<1>1. t \in Seq(Entry) /\ Len(t) \in Nat /\ Len(t) <= ModGroups
  BY DEF ModTable
<1>2. Kept(t, I) \in Seq(Entry) /\ Len(Kept(t, I)) <= Len(t)
  BY <1>1, KeptIs
<1>3. PICK e \in [DOMAIN Kept(t, I) -> I] :
        \A n \in DOMAIN Kept(t, I) :
            /\ Kept(t, I)[n] = t[e[n]]
            /\ \A m \in DOMAIN Kept(t, I) : e[n] = e[m] => n = m
  BY <1>1, KeptIs
<1>4. Len(Kept(t, I)) \in Nat /\ ModGroups \in Nat /\ Len(Kept(t, I)) <= ModGroups
  BY <1>1, <1>2, Constants
<1>5. \A n \in DOMAIN Kept(t, I) : e[n] \in DOMAIN t
  BY <1>3
<1> QED
  BY <1>2, <1>3, <1>4, <1>5 DEF ModTable

\* The oldest group makes room.
LEMMA TailTable ==
    ASSUME NEW t, ModTable(t), Len(t) >= ModGroups
    PROVE  /\ ModTable(Tail(t)) /\ Len(Tail(t)) < ModGroups
           /\ \A n \in DOMAIN Tail(t) : n + 1 \in DOMAIN t /\ Tail(t)[n] = t[n + 1]
<1>1. t \in Seq(Entry) /\ Len(t) \in Nat /\ Len(t) # 0 /\ ModGroups \in Nat /\ Len(t) <= ModGroups
  BY Constants DEF ModTable
<1>2. Tail(t) \in Seq(Entry) /\ Len(Tail(t)) = Len(t) - 1
  BY <1>1
<1>3. DOMAIN Tail(t) = 1..(Len(t) - 1) /\ DOMAIN t = 1..Len(t)
  BY <1>1, <1>2
<1>4. \A n \in DOMAIN Tail(t) : n + 1 \in DOMAIN t /\ Tail(t)[n] = t[n + 1]
  BY <1>1, <1>3
<1>5. \A i, j \in DOMAIN Tail(t) : i + 1 = j + 1 => i = j
  BY <1>3
<1> QED
  BY <1>1, <1>2, <1>4, <1>5 DEF ModTable

NewEntry(s) == [key |-> ModKey[s[1]], total |-> Total[s[1]], age |-> 0, parts |-> <<s>>]
Longer(g, s) == [g EXCEPT !.parts = Append(g.parts, s)]

\* Where the group of a table after a sentence comes from.
ComesFrom(g, t, s) ==
    \/ g.key # ModKey[s[1]] /\ \E i \in DOMAIN t : g = t[i]
    \/ s[2] = 1 /\ g = NewEntry(s)
    \/ /\ s[2] # 1 /\ s[2] < Total[s[1]]
       /\ \E i \in DOMAIN t : ModTakes(s[1], t[i], s[2]) /\ g = Longer(t[i], s)

\* A new group is a group.
LEMMA NewEntryIs ==
    ASSUME NEW s \in Sentences, s[2] = 1
    PROVE  /\ NewEntry(s) \in Entry /\ NewEntry(s).key = ModKey[s[1]]
           /\ NewEntry(s).parts # <<>> /\ Holds(NewEntry(s).parts, NewEntry(s).total)
           /\ \A t \in ToSet(NewEntry(s).parts) : ModKey[t[1]] = NewEntry(s).key
BY SentenceIs, Constants DEF NewEntry, Entry, Holds, Numbered, ToSet

\* A first sentence.
LEMMA ModFirst ==
    ASSUME NEW t, ModTable(t), NEW s \in Sentences, s[2] = 1, s \notin ModRejects
    PROVE  /\ ModTable(ModAfter(t, s))
           /\ \A n \in DOMAIN ModAfter(t, s) : ComesFrom(ModAfter(t, s)[n], t, s)
<1> DEFINE kept == IF Len(t) >= ModGroups THEN Tail(t) ELSE t
           new == NewEntry(s)
<1>1. /\ ModTable(kept) /\ Len(kept) < ModGroups
      /\ \A n \in DOMAIN kept : \E i \in DOMAIN t : kept[n] = t[i]
  <2>1. Len(t) \in Nat /\ ModGroups \in Nat
    BY Constants DEF ModTable
  <2>2. CASE Len(t) >= ModGroups
    BY <2>2, TailTable
  <2>3. CASE ~(Len(t) >= ModGroups)
    BY <2>1, <2>3
  <2> QED
    BY <2>2, <2>3
<1>2. /\ new \in Entry /\ new.key = ModKey[s[1]]
      /\ new.parts # <<>> /\ Holds(new.parts, new.total)
      /\ \A x \in ToSet(new.parts) : ModKey[x[1]] = new.key
  BY NewEntryIs
<1>3. ModAfter(t, s) = IF \E g \in ToSet(kept) : g.key = new.key
                       THEN [i \in DOMAIN kept |-> IF kept[i].key = new.key THEN new ELSE kept[i]]
                       ELSE Append(kept, new)
  BY DEF ModAfter, NewEntry
<1> HIDE DEF kept, new
<1>4. kept \in Seq(Entry) /\ Len(kept) \in Nat /\ DOMAIN kept = 1..Len(kept) /\ ModGroups \in Nat
  BY <1>1, Constants DEF ModTable
<1>5. CASE \E g \in ToSet(kept) : g.key = new.key
  <2> DEFINE r == [i \in DOMAIN kept |-> IF kept[i].key = new.key THEN new ELSE kept[i]]
  <2>1. ModAfter(t, s) = r
    BY <1>3, <1>5
  <2>2. r \in Seq(Entry) /\ Len(r) = Len(kept) /\ DOMAIN r = DOMAIN kept
    BY <1>2, <1>4
  <2>3. \A i \in DOMAIN kept : /\ r[i] = (IF kept[i].key = new.key THEN new ELSE kept[i])
                               /\ r[i].key = kept[i].key
    BY <1>2
  <2> HIDE DEF r
  <2>4. ModTable(r)
    <3>1. \A i, j \in DOMAIN r : r[i].key = r[j].key => i = j
      BY <1>1, <2>2, <2>3 DEF ModTable
    <3>2. \A i \in DOMAIN r :
            /\ r[i].parts # <<>> /\ Holds(r[i].parts, r[i].total)
            /\ \A x \in ToSet(r[i].parts) : ModKey[x[1]] = r[i].key
      BY <1>1, <1>2, <2>2, <2>3 DEF ModTable
    <3>3. Len(r) <= ModGroups
      BY <1>1, <1>4, <2>2
    <3> QED
      BY <2>2, <3>1, <3>2, <3>3 DEF ModTable
  <2>5. \A n \in DOMAIN r : ComesFrom(r[n], t, s)
    BY <1>1, <1>2, <2>2, <2>3 DEF ComesFrom, new
  <2> QED
    BY <2>1, <2>4, <2>5
<1>6. CASE ~(\E g \in ToSet(kept) : g.key = new.key)
  <2> DEFINE r == Append(kept, new)
  <2>1. ModAfter(t, s) = r
    BY <1>3, <1>6
  <2>2. /\ r \in Seq(Entry) /\ Len(r) = Len(kept) + 1 /\ DOMAIN r = (DOMAIN kept) \cup {Len(kept) + 1}
        /\ \A i \in DOMAIN kept : r[i] = kept[i]
        /\ r[Len(kept) + 1] = new
    BY <1>2, <1>4
  <2>3. \A i \in DOMAIN kept : kept[i].key # new.key
    BY <1>6 DEF ToSet
  <2> HIDE DEF r
  <2>4. ModTable(r)
    <3>1. \A i, j \in DOMAIN r : r[i].key = r[j].key => i = j
      BY <1>1, <2>2, <2>3 DEF ModTable
    <3>2. \A i \in DOMAIN r :
            /\ r[i].parts # <<>> /\ Holds(r[i].parts, r[i].total)
            /\ \A x \in ToSet(r[i].parts) : ModKey[x[1]] = r[i].key
      BY <1>1, <1>2, <2>2 DEF ModTable
    <3>3. Len(r) <= ModGroups
      BY <1>1, <1>4, <2>2
    <3> QED
      BY <2>2, <3>1, <3>2, <3>3 DEF ModTable
  <2>5. \A n \in DOMAIN r : ComesFrom(r[n], t, s)
    BY <1>1, <1>2, <2>2, <2>3 DEF ComesFrom, new
  <2> QED
    BY <2>1, <2>4, <2>5
<1> QED
  BY <1>5, <1>6

\* A later sentence.
LEMMA ModNext ==
    ASSUME NEW t, ModTable(t), NEW s \in Sentences, s[2] # 1, s \notin ModRejects
    PROVE  /\ ModTable(ModAfter(t, s))
           /\ \A n \in DOMAIN ModAfter(t, s) : ComesFrom(ModAfter(t, s)[n], t, s)
<1>1. t \in Seq(Entry) /\ Len(t) \in Nat /\ DOMAIN t = 1..Len(t)
  BY DEF ModTable
<1>2. CASE s[2] < Total[s[1]] /\ \E g \in ToSet(t) : ModTakes(s[1], g, s[2])
  <2> DEFINE r == [i \in DOMAIN t |-> IF t[i].key = ModKey[s[1]] THEN Longer(t[i], s) ELSE t[i]]
  <2>1. ModAfter(t, s) = r
    BY <1>2 DEF ModAfter, Longer
  <2>2. PICK k \in DOMAIN t : ModTakes(s[1], t[k], s[2])
    BY <1>2 DEF ToSet
  <2>3. \A i \in DOMAIN t : t[i].key = ModKey[s[1]] => i = k
    BY <2>2 DEF ModTable, ModTakes
  <2>4. /\ t[k] \in Entry /\ Numbered(t[k].parts) /\ s[2] = Len(t[k].parts) + 1
        /\ t[k].parts \in Seq(Sentences) /\ t[k].total = Total[s[1]] /\ t[k].key = ModKey[s[1]]
        /\ \A x \in ToSet(t[k].parts) : ModKey[x[1]] = t[k].key
    <3>1. t[k] \in Entry
      BY <1>1, <2>2
    <3>2. t[k].parts \in Seq(Sentences) /\ Len(t[k].parts) \in Nat
      BY <3>1 DEF Entry
    <3>3. Holds(t[k].parts, t[k].total) /\ \A x \in ToSet(t[k].parts) : ModKey[x[1]] = t[k].key
      BY <2>2 DEF ModTable
    <3>4. s[2] = Len(t[k].parts) + 1 /\ t[k].total = Total[s[1]] /\ t[k].key = ModKey[s[1]]
      <4>1. s[2] \in 1..9
        BY SentenceIs
      <4> QED
        BY <2>2, <3>2, <4>1 DEF ModTakes
    <3> QED
      BY <3>1, <3>2, <3>3, <3>4 DEF Holds
  <2>5. /\ Append(t[k].parts, s) \in Seq(Sentences) /\ Numbered(Append(t[k].parts, s))
        /\ Len(Append(t[k].parts, s)) = s[2] /\ Append(t[k].parts, s) # <<>>
        /\ \A x \in ToSet(Append(t[k].parts, s)) : ModKey[x[1]] = t[k].key
    BY <2>4, OneMore
  <2>6. /\ Longer(t[k], s) \in Entry /\ Longer(t[k], s).key = t[k].key /\ Longer(t[k], s).total = t[k].total
        /\ Longer(t[k], s).parts = Append(t[k].parts, s)
    BY <2>4, <2>5 DEF Longer, Entry
  <2>7. /\ r[k] = Longer(t[k], s) /\ \A i \in DOMAIN t : i # k => r[i] = t[i] /\ r[i].key # ModKey[s[1]]
        /\ DOMAIN r = DOMAIN t
    BY <2>3, <2>4
  <2>8. r \in Seq(Entry) /\ Len(r) = Len(t)
    <3>1. \A i \in DOMAIN t : r[i] \in Entry
      <4> HIDE DEF r
      <4> QED
        BY <1>1, <2>6, <2>7
    <3> QED
      BY <1>1, <3>1
  <2> HIDE DEF r
  <2>9. ModTable(r)
    <3>1. \A i, j \in DOMAIN r : r[i].key = r[j].key => i = j
      BY <2>4, <2>6, <2>7 DEF ModTable
    <3>2. /\ Holds(r[k].parts, r[k].total) /\ r[k].parts # <<>>
          /\ \A x \in ToSet(r[k].parts) : ModKey[x[1]] = r[k].key
      BY <1>2, <2>4, <2>5, <2>6, <2>7 DEF Holds
    <3>3. \A i \in DOMAIN r :
            /\ r[i].parts # <<>> /\ Holds(r[i].parts, r[i].total)
            /\ \A x \in ToSet(r[i].parts) : ModKey[x[1]] = r[i].key
      BY <2>7, <3>2 DEF ModTable
    <3> QED
      BY <2>8, <3>1, <3>3 DEF ModTable
  <2>10. \A n \in DOMAIN r : ComesFrom(r[n], t, s)
    BY <1>2, <2>2, <2>7 DEF ComesFrom
  <2> QED
    BY <2>1, <2>9, <2>10
<1>3. CASE ~(s[2] < Total[s[1]] /\ \E g \in ToSet(t) : ModTakes(s[1], g, s[2]))
  <2> DEFINE I == {i \in DOMAIN t : t[i].key # ModKey[s[1]]}
  <2>1. ModAfter(t, s) = Kept(t, I)
    BY <1>3 DEF ModAfter
  <2>2. I \in SUBSET DOMAIN t
    OBVIOUS
  <2>3. ModTable(Kept(t, I)) /\ \A n \in DOMAIN Kept(t, I) : \E i \in I : Kept(t, I)[n] = t[i]
    <3> HIDE DEF I
    <3> QED
      BY <2>2, KeptTable
  <2> QED
    BY <2>1, <2>3 DEF ComesFrom
<1> QED
  BY <1>2, <1>3

\* What the table of the transmitter is left with when a sentence arrives.
Young == Kept(mod, {i \in DOMAIN mod : mod[i].age < ModTtl})

LEMMA YoungIs ==
    ASSUME ModInv
    PROVE  /\ ModTable(Young)
           /\ \A i \in DOMAIN Young :
                /\ Young[i] \in Entry
                /\ Young[i].parts # <<>> /\ Holds(Young[i].parts, Young[i].total)
                /\ \A s \in ToSet(Young[i].parts) : ModKey[s[1]] = Young[i].key
                /\ Young[i].age \in Nat /\ Young[i].age <= Ttl
                /\ Agrees(Young[i].parts, Young[i].total, Young[i].age, ModRejects)
<1> DEFINE I == {i \in DOMAIN mod : mod[i].age < ModTtl}
<1>1. I \in SUBSET DOMAIN mod /\ Young = Kept(mod, I) /\ ModTable(mod)
  BY DEF Young, ModInv
<1>2. \A i \in I : mod[i].age < ModTtl /\ Agrees(mod[i].parts, mod[i].total, mod[i].age, ModRejects)
  BY DEF ModInv
<1> HIDE DEF I
<1>3. ModTable(Young) /\ \A n \in DOMAIN Young : \E i \in I : Young[n] = mod[i]
  BY <1>1, KeptTable
<1>4. \A n \in DOMAIN Young :
        Young[n].age < ModTtl /\ Agrees(Young[n].parts, Young[n].total, Young[n].age, ModRejects)
  BY <1>2, <1>3
<1>5. \A n \in DOMAIN Young : Young[n] \in Entry
  BY <1>3 DEF ModTable
<1>6. \A n \in DOMAIN Young : Young[n].age \in Nat /\ Young[n].age <= Ttl
  BY <1>4, <1>5, Constants DEF Entry
<1> QED
  BY <1>3, <1>4, <1>5, <1>6 DEF ModTable

\* The transmitter completes nothing else than the server.
LEMMA ReceiveKeepsMod ==
    ASSUME ModInv, AppInv, NEW s \in Sentences, Receive(s)
    PROVE  ModInv'
<1>1. mod' = ModAfter(Young, s)
  BY DEF Receive, Young
<1>2. ModTable(Young)
  BY YoungIs
<1>3. ModTable(mod') /\ \A n \in DOMAIN mod' :
        (s \in ModRejects /\ \E i \in DOMAIN Young : mod'[n] = Young[i]) \/ ComesFrom(mod'[n], Young, s)
  <2>1. CASE s \in ModRejects
    <3>1. mod' = Young
      BY <1>1, <2>1 DEF ModAfter
    <3> QED
      BY <1>2, <2>1, <3>1
  <2>2. CASE s \notin ModRejects /\ s[2] = 1
    BY <1>1, <1>2, <2>2, ModFirst
  <2>3. CASE s \notin ModRejects /\ s[2] # 1
    BY <1>1, <1>2, <2>3, ModNext
  <2> QED
    BY <2>1, <2>2, <2>3
<1> DEFINE Agree(g) == AgreesNext(g.parts, g.total, g.age, ModRejects)
<1>4. ASSUME NEW i \in DOMAIN Young, s \in ModRejects \/ Young[i].key # ModKey[s[1]]
      PROVE  Agree(Young[i])
  <2> DEFINE p == Young[i].parts
             age == Young[i].age
             total == Young[i].total
  <2>1. /\ p \in Seq(Sentences) /\ p # <<>> /\ age \in Nat /\ age <= Ttl
        /\ Agrees(p, total, age, ModRejects)
        /\ \A t \in ToSet(p) : ModKey[t[1]] = Young[i].key
    BY YoungIs DEF Entry
  <2>2. s \in ModRejects \/ ~(total = Total[s[1]] /\ \A t \in ToSet(p) : Key[t[1]] = Key[s[1]])
    <3> SUFFICES ASSUME Young[i].key # ModKey[s[1]], \A t \in ToSet(p) : Key[t[1]] = Key[s[1]]
                 PROVE  FALSE
      BY <1>4
    <3>1. PICK t \in ToSet(p) : TRUE
      BY <2>1, NotEmpty
    <3>2. t \in Sentences /\ ModKey[t[1]] = Young[i].key /\ Key[t[1]] = Key[s[1]]
      BY <2>1, <3>1, NotEmpty
    <3>3. t[1] \in Messages /\ s[1] \in Messages
      BY <3>2, SentenceIs
    <3> QED
      BY <3>2, <3>3, CoarserKeys
  <2> HIDE DEF p, age, total
  <2>3. AgreesNext(p, total, age, ModRejects)
    BY <2>1, <2>2, NotConcerned
  <2> QED
    BY <2>3 DEF p, age, total
<1>5. ASSUME NEW g, ComesFrom(g, Young, s) PROVE Agree(g)
  <2>1. CASE g.key # ModKey[s[1]] /\ \E i \in DOMAIN Young : g = Young[i]
    BY <1>4, <2>1
  <2>2. CASE s[2] = 1 /\ g = NewEntry(s)
    <3>1. g.total = Total[s[1]] /\ g.age = 0 /\ g.parts = <<s>>
      BY <2>2 DEF NewEntry
    <3> QED
      BY <2>2, <3>1, BothBegin
  <2>3. CASE /\ s[2] # 1 /\ s[2] < Total[s[1]]
             /\ \E i \in DOMAIN Young : ModTakes(s[1], Young[i], s[2]) /\ g = Longer(Young[i], s)
    <3>1. PICK i \in DOMAIN Young : ModTakes(s[1], Young[i], s[2]) /\ g = Longer(Young[i], s)
      BY <2>3
    <3> DEFINE h == Young[i]
               p == h.parts
               age == h.age
    <3>2. /\ h \in Entry /\ p # <<>> /\ Numbered(p) /\ p \in Seq(Sentences)
          /\ age \in Nat /\ age <= Ttl /\ Agrees(p, h.total, age, ModRejects)
      BY <3>1, YoungIs DEF Holds, Entry
    <3>3. h.total = Total[s[1]] /\ s[2] = Len(p) + 1
      <4>1. Len(p) \in Nat /\ s[2] \in 1..9
        BY <3>2, SentenceIs
      <4> QED
        BY <3>1, <4>1 DEF ModTakes
    <3>4. g.total = h.total /\ g.age = age /\ g.parts = Append(p, s)
      BY <3>1, <3>2 DEF Longer, Entry
    <3>5. Agrees(p, Total[s[1]], age, ModRejects)
      BY <3>2, <3>3
    <3> HIDE DEF h, p, age
    <3>6. AgreesNext(Append(p, s), Total[s[1]], age, ModRejects)
      BY <2>3, <3>2, <3>3, <3>5, BothGoOn
    <3> QED
      BY <3>3, <3>4, <3>6
  <2> QED
    BY <1>5, <2>1, <2>2, <2>3 DEF ComesFrom
<1>6. \A n \in DOMAIN mod' : Agree(mod'[n])
  <2> HIDE DEF Agree
  <2> QED
    BY <1>3, <1>4, <1>5
<1> QED
  BY <1>3, <1>6 DEF ModInv, Agrees, AgreesNext, Comparable, ModTable

\* Its groups grow old as the server's do.
LEMMA TickKeepsMod ==
    ASSUME ModInv, AppInv, Tick
    PROVE  ModInv'
<1>1. mod' = [i \in DOMAIN mod |-> Older(mod[i], ModTtl)]
  BY DEF Tick
<1>2. mod \in Seq(Entry) /\ Len(mod) \in Nat /\ DOMAIN mod = 1..Len(mod)
  BY DEF ModInv, ModTable
<1>3. \A i \in DOMAIN mod :
        /\ mod'[i] \in Entry /\ mod[i].age \in Nat
        /\ mod'[i].key = mod[i].key /\ mod'[i].total = mod[i].total /\ mod'[i].parts = mod[i].parts
        /\ mod'[i].age < ModTtl => mod[i].age < ModTtl /\ mod'[i].age = mod[i].age + 1
  <2> TAKE i \in DOMAIN mod
  <2> DEFINE g == mod[i]
  <2>1. g \in Entry /\ mod'[i] = Older(g, ModTtl)
    BY <1>1, <1>2
  <2> HIDE DEF g
  <2>2. g.age \in 0..ModTtl /\ g = [key |-> g.key, total |-> g.total, age |-> g.age, parts |-> g.parts]
    BY <2>1 DEF Entry
  <2>3. Older(g, ModTtl) = [key |-> g.key, total |-> g.total, parts |-> g.parts,
                            age |-> IF g.age < ModTtl THEN g.age + 1 ELSE g.age]
    BY <2>2 DEF Older
  <2>4. Older(g, ModTtl) \in Entry
    BY <2>1, <2>2, <2>3, Constants DEF Entry
  <2>5. mod'[i].age = IF g.age < ModTtl THEN g.age + 1 ELSE g.age
    BY <2>1, <2>3
  <2>6. g.age \in Nat /\ (mod'[i].age < ModTtl => g.age < ModTtl /\ mod'[i].age = g.age + 1)
    BY <2>2, <2>5, Constants
  <2>7. mod'[i].key = g.key /\ mod'[i].total = g.total /\ mod'[i].parts = g.parts
    BY <2>1, <2>3
  <2> QED
    BY <2>1, <2>4, <2>6, <2>7 DEF g
<1>4. mod' \in Seq(Entry) /\ Len(mod') = Len(mod) /\ DOMAIN mod' = DOMAIN mod
  BY <1>1, <1>2, <1>3
<1>5. ModTable(mod')
  <2>1. \A i, j \in DOMAIN mod' : mod'[i].key = mod'[j].key => i = j
    BY <1>3, <1>4 DEF ModInv, ModTable
  <2>2. \A i \in DOMAIN mod' :
          /\ mod'[i].parts # <<>> /\ Holds(mod'[i].parts, mod'[i].total)
          /\ \A s \in ToSet(mod'[i].parts) : ModKey[s[1]] = mod'[i].key
    BY <1>3, <1>4 DEF ModInv, ModTable
  <2>3. Len(mod') <= ModGroups
    BY <1>4 DEF ModInv, ModTable
  <2> QED
    BY <1>4, <2>1, <2>2, <2>3 DEF ModTable
<1>6. ASSUME NEW i \in DOMAIN mod', mod'[i].age < ModTtl
      PROVE  AgreesNext(mod'[i].parts, mod'[i].total, mod'[i].age, ModRejects)
  <2>1. /\ mod'[i].total = mod[i].total /\ mod'[i].parts = mod[i].parts /\ mod[i].age \in Nat
        /\ mod[i].age < ModTtl /\ mod'[i].age = mod[i].age + 1
    BY <1>3, <1>4, <1>6
  <2>2. Agrees(mod[i].parts, mod[i].total, mod[i].age, ModRejects) /\ mod[i].age < Ttl
    BY <1>4, <2>1, Constants DEF ModInv
  <2>3. AgreesNext(mod[i].parts, mod[i].total, mod[i].age + 1, ModRejects)
    BY <2>1, <2>2, BothAge
  <2> QED
    BY <2>1, <2>3
<1> QED
  BY <1>5, <1>6 DEF ModInv, Agrees, AgreesNext, Comparable, ModTable

-----------------------------------------------------------------------------
\* The invariants of the two stricter receivers hold in every state.
LEMMA StricterInvariant == Spec => [](PadInv /\ ModInv)
<1>1. Init => PadInv /\ ModInv
  <2> SUFFICES ASSUME Init PROVE PadInv /\ ModInv
    OBVIOUS
  <2>1. pad = [j \in PadGroups |-> NoAssembly] /\ mod = <<>>
    BY DEF Init
  <2>2. NoAssembly \in Assembly /\ NoAssembly.parts = <<>> /\ ToSet(NoAssembly.parts) = {}
    BY Constants DEF NoAssembly, Assembly, ToSet
  <2>3. PadInv
    BY <2>1, <2>2, PadGroupsAre DEF PadInv, Holds, Numbered
  <2>4. ModInv
    BY <2>1, Constants DEF ModInv, ModTable
  <2> QED
    BY <2>3, <2>4
<1>2. AppInv /\ PadInv /\ ModInv /\ [Next]_vars => PadInv' /\ ModInv'
  <2>1. CASE UNCHANGED vars
    BY <2>1 DEF vars, PadInv, ModInv, Agrees, Comparable, ModTable
  <2> QED
    BY <2>1, TickKeepsPad, ReceiveKeepsPad, TickKeepsMod, ReceiveKeepsMod DEF Next
<1> QED
  BY <1>1, <1>2, AppInvariant, PTL DEF Spec

\* Where the iPad or the transmitter is assembling a message, the server has
\* the same sentences of it, unless it refused the message when it began, tells
\* its sentences apart by a key that the other does not, or stored one that the
\* other refused to read (Parser.swift:24, modulator.py:27-28, parser.py:235).
THEOREM StricterHoldTrue == Spec => []StricterAgree
<1>1. PadInv /\ ModInv => StricterAgree
  <2> SUFFICES ASSUME PadInv, ModInv, NEW k \in GroupKeys
               PROVE  /\ \A j \in PadGroups :
                            /\ pad[j].parts # <<>> /\ pad[j].age < Ttl
                            /\ Comparable(pad[j].parts, j[2], k, PadRejects)
                            => app[k].parts = ToSet(pad[j].parts)
                      /\ \A g \in ToSet(mod) :
                            g.age < ModTtl /\ Comparable(g.parts, g.total, k, ModRejects)
                                => app[k].parts = ToSet(g.parts)
    BY DEF StricterAgree
  <2>1. \A g \in ToSet(mod) : \E i \in DOMAIN mod : g = mod[i]
    BY DEF ToSet
  <2> QED
    BY <2>1 DEF PadInv, ModInv, Agrees
<1> QED
  BY <1>1, StricterInvariant, PTL

\* No receiver holds a complete message, more groups than its table has room
\* for, or a group without its first sentence (parser.py:237, :253).
THEOREM TypeCorrect == Spec => []TypeOK
<1>1. AppInv /\ PadInv /\ ModInv => TypeOK
  <2> SUFFICES ASSUME AppInv, PadInv, ModInv PROVE TypeOK
    OBVIOUS
  <2>1. app \in [GroupKeys -> [age : Ages, parts : SUBSET Sentences]]
        /\ waited \in [GroupKeys -> Ages] /\ refused \subseteq GroupKeys
    BY DEF AppInv, AppShape, Group
  <2>2. \A k \in GroupKeys :
          /\ \A s, t \in app[k].parts : s[2] = t[2] => s = t
          /\ app[k].parts # {} => Cardinality(app[k].parts) < k[2] /\ \E s \in app[k].parts : s[2] = 1
    BY DEF AppInv, AppParts, Distinct, Begun, Incomplete
  <2>3. Cardinality({k \in GroupKeys : app[k].parts # {}}) <= MaxGroups
    BY DEF AppInv, AppTable, Open
  <2>4. \A k \in PadGroups : pad[k].age <= Ttl /\ Len(pad[k].parts) < k[2]
    <3>1. \A k \in PadGroups : pad[k].age \in 0..Ttl
      BY DEF PadInv, Assembly
    <3> QED
      BY <3>1, Constants DEF PadInv, Holds
  <2>5. Len(mod) <= ModGroups /\ \A g \in ToSet(mod) : g.age <= ModTtl /\ Len(g.parts) < g.total
    <3>1. \A i \in DOMAIN mod : mod[i] \in Entry /\ Holds(mod[i].parts, mod[i].total)
      <4>1. mod \in Seq(Entry)
        BY DEF ModInv, ModTable
      <4>2. \A i \in DOMAIN mod : Holds(mod[i].parts, mod[i].total)
        BY DEF ModInv, ModTable
      <4> QED
        BY <4>1, <4>2
    <3>2. \A i \in DOMAIN mod : mod[i].age <= ModTtl /\ Len(mod[i].parts) < mod[i].total
      BY <3>1, Constants DEF Entry, Holds
    <3> QED
      BY <3>2 DEF ModInv, ModTable, ToSet
  <2> QED
    BY <2>1, <2>2, <2>3, <2>4, <2>5 DEF TypeOK
<1> QED
  BY <1>1, AppInvariant, StricterInvariant, PTL
=============================================================================
