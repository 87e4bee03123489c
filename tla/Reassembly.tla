----------------------------- MODULE Reassembly -----------------------------
(***************************************************************************)
(* The reassembly of AIS messages sent in several sentences, as the server *)
(* (class Decoder, src/app/parser.py), the iPad application (class         *)
(* NMEAParser, Parser.swift) and the transmitter (class Assembler,         *)
(* src/sdr-tx/modulator.py) each implement it.  All three are fed the same *)
(* sentences of one source, which the network loses, repeats and reorders, *)
(* and messages reuse the keys they are told apart by, which differ        *)
(* between the three.  A sentence is one the server reads: a message and a *)
(* part number; sentences of different messages differ.                    *)
(***************************************************************************)
EXTENDS Integers, Sequences, FiniteSets, SequencesExt

CONSTANTS
    Messages,  \* messages of two sentences or more
    Key,       \* message -> tag with its ! or $, sequence and channel as they came
    PadKey,    \* message -> tag without it, sequence and channel as they came
    ModKey,    \* message -> tag, sequence and channel A or B: 2 is B, 1 and none are A
    Total,     \* message -> sentences
    PadRejects,\* sentences with fill bits, tag, channel or payload the iPad refuses to read
    ModRejects,\* the same of the transmitter
    Oversized, \* beginnings of messages too long for the iPad
    Unnumbered,\* keys without a sequence number
    Ttl,       \* 30 s in ticks
    ModTtl,    \* the 10 s of the transmitter
    MaxGroups, \* 4096
    ModGroups  \* 32

ASSUME ReassemblyAssumption ==
    /\ Total \in [Messages -> 2..9] /\ DOMAIN Key = Messages
    /\ DOMAIN PadKey = Messages /\ DOMAIN ModKey = Messages
    /\ \A m, n \in Messages : Key[m] = Key[n] => PadKey[m] = PadKey[n] /\ ModKey[m] = ModKey[n]
    /\ Ttl \in Nat /\ ModTtl \in Nat /\ ModTtl <= Ttl
    /\ MaxGroups \in Nat \ {0} /\ ModGroups \in Nat \ {0}

VARIABLES
    app,     \* Decoder.groups
    pad,     \* NMEAParser.fragments
    mod,     \* Assembler.parts, oldest first
    since,   \* history: sentences of a group's key since its last first one
    waited,  \* history: the time since that first sentence
    refused, \* history: keys whose last first sentence the server refused
    steady   \* history: sentences of a message the server got in order, undisturbed

vars == <<app, pad, mod, since, waited, refused, steady>>

\* The keys of the server and the iPad include the number of sentences.
GroupKey(m) == <<Key[m], Total[m]>>
GroupKeys == {GroupKey(m) : m \in Messages}
PadGroup(m) == <<PadKey[m], Total[m]>>
PadGroups == {PadGroup(m) : m \in Messages}
Sentences == {s \in Messages \X (1..9) : s[2] <= Total[s[1]]}
Ages == 0..(Ttl + 1)

NoGroup == [age |-> 0, parts |-> {}]
NoAssembly == [age |-> 0, parts |-> <<>>]

TypeOK ==
    /\ app \in [GroupKeys -> [age : Ages, parts : SUBSET Sentences]]
    /\ \A k \in GroupKeys :
        /\ \A s, t \in app[k].parts : s[2] = t[2] => s = t
        /\ app[k].parts # {} => Cardinality(app[k].parts) < k[2] /\ \E s \in app[k].parts : s[2] = 1
    /\ Cardinality({k \in GroupKeys : app[k].parts # {}}) <= MaxGroups
    /\ \A k \in PadGroups : pad[k].age <= Ttl /\ Len(pad[k].parts) < k[2]
    /\ Len(mod) <= ModGroups /\ \A g \in ToSet(mod) : g.age <= ModTtl /\ Len(g.parts) < g.total
    /\ waited \in [GroupKeys -> Ages] /\ refused \subseteq GroupKeys

Init ==
    /\ app = [k \in GroupKeys |-> NoGroup]
    /\ pad = [k \in PadGroups |-> NoAssembly] /\ mod = <<>>
    /\ since = [k \in GroupKeys |-> {}] /\ waited = [k \in GroupKeys |-> 0]
    /\ refused = {} /\ steady = [m \in Messages |-> 0]

-----------------------------------------------------------------------------
\* The server.
Open(groups) == {k \in GroupKeys : groups[k].parts # {}}

\* Only a new group is refused.
Refuses(groups, s) ==
    s[2] = 1 /\ GroupKey(s[1]) \notin Open(groups) /\ Cardinality(Open(groups)) >= MaxGroups

\* (Changed form: a first sentence joins the group that is there.)
Joining(groups, s) ==
    IF s[2] = 1 /\ groups[GroupKey(s[1])].parts = {} THEN [age |-> 0, parts |-> {s}]
    ELSE groups[GroupKey(s[1])]

\* The group a sentence is added to: a first one always begins a new group.
Started(groups, s) ==
    IF s[2] = 1 THEN [age |-> 0, parts |-> {s}] ELSE groups[GroupKey(s[1])]

\* A gap without a sequence number, and another sentence of the same number, end the group.
Conflicts(g, s) ==
    \/ Key[s[1]] \in Unnumbered /\ s[2] > 1 /\ \A t \in g.parts : t[2] # s[2] - 1
    \/ \E t \in g.parts : t[2] = s[2] /\ t # s

\* (Changed form: a full table forgets a group that runs, for the new one.)
AppEvicts(groups, s) ==
    LET g == Started(groups, s)
        parts == g.parts \cup {s}
        rest == IF Refuses(groups, s)
                THEN [groups EXCEPT ![CHOOSE k \in Open(groups) : TRUE] = NoGroup] ELSE groups
    IN  [rest EXCEPT ![GroupKey(s[1])] =
            IF g.parts = {} \/ Conflicts(g, s) \/ Cardinality(parts) = Total[s[1]] THEN NoGroup
            ELSE [g EXCEPT !.parts = parts]]

\* A complete group is removed and decoded.
AppAfter(groups, s) ==
    LET g == Started(groups, s)
        parts == g.parts \cup {s}
    IN  IF Refuses(groups, s) THEN groups
        ELSE [groups EXCEPT ![GroupKey(s[1])] =
                IF g.parts = {} \/ Conflicts(g, s) \/ Cardinality(parts) = Total[s[1]] THEN NoGroup
                ELSE [g EXCEPT !.parts = parts]]

-----------------------------------------------------------------------------
\* The iPad: strictly in order; a repeated first sentence ends the group, and a
\* full table forgets all groups.  What it refuses to read leaves them alone.
PadAfter(groups, s) ==
    LET k == PadGroup(s[1])
        full == Cardinality({j \in PadGroups : groups[j].parts # <<>>}) >= MaxGroups
        parts == Append(groups[k].parts, s)
    IN  IF s \in PadRejects THEN groups
        ELSE IF s[2] = 1 /\ groups[k].parts = <<>>
        THEN [j \in PadGroups |-> IF j = k THEN [age |-> 0, parts |-> <<s>>]
                                  ELSE IF full THEN NoAssembly ELSE groups[j]]
        ELSE [groups EXCEPT ![k] =
                IF s[2] = 1 \/ s[2] # Len(parts) \/ s[2] = k[2] \/ parts \in Oversized THEN NoAssembly
                ELSE [groups[k] EXCEPT !.parts = parts]]

\* (Changed form: the number of sentences is not compared.)
ModTakesAny(m, g, n) == g.key = ModKey[m] /\ Len(g.parts) = n - 1

\* The transmitter: one group for each key, whatever its number of sentences.
ModTakes(m, g, n) == g.key = ModKey[m] /\ g.total = Total[m] /\ Len(g.parts) = n - 1

\* The groups at the places I, in their order.
Kept(groups, I) ==
    [n \in 1..Cardinality(I) |-> groups[CHOOSE i \in I : Cardinality({j \in I : j <= i}) = n]]

\* A new first sentence replaces the group of its key in place; the oldest
\* group makes room, even then.  What it refuses to read leaves the groups alone.
ModAfter(groups, s) ==
    LET new == [key |-> ModKey[s[1]], total |-> Total[s[1]], age |-> 0, parts |-> <<s>>]
        kept == IF Len(groups) >= ModGroups THEN Tail(groups) ELSE groups
    IN  IF s \in ModRejects THEN groups
        ELSE IF s[2] = 1
        THEN IF \E g \in ToSet(kept) : g.key = new.key
             THEN [i \in DOMAIN kept |-> IF kept[i].key = new.key THEN new ELSE kept[i]]
             ELSE Append(kept, new)
        ELSE IF s[2] < Total[s[1]] /\ \E g \in ToSet(groups) : ModTakes(s[1], g, s[2])
        THEN [i \in DOMAIN groups |-> IF groups[i].key = ModKey[s[1]]
                                      THEN [groups[i] EXCEPT !.parts = Append(@, s)] ELSE groups[i]]
        ELSE Kept(groups, {i \in DOMAIN groups : groups[i].key # ModKey[s[1]]})

-----------------------------------------------------------------------------
\* Every sentence first removes what has expired.
Receive(s) ==
    LET k == GroupKey(s[1])
        groups == [j \in GroupKeys |-> IF app[j].age > Ttl THEN NoGroup ELSE app[j]]
    IN  /\ app' = AppAfter(groups, s)
        /\ pad' = PadAfter([j \in PadGroups |-> IF pad[j].age < Ttl THEN pad[j] ELSE NoAssembly], s)
        /\ mod' = ModAfter(Kept(mod, {i \in DOMAIN mod : mod[i].age < ModTtl}), s)
        /\ since' = [since EXCEPT ![k] = IF s[2] = 1 THEN {s} ELSE @ \cup {s}]
        /\ waited' = IF s[2] = 1 THEN [waited EXCEPT ![k] = 0] ELSE waited
        /\ refused' = IF s[2] > 1 THEN refused
                      ELSE IF Refuses(groups, s) THEN refused \cup {k} ELSE refused \ {k}
        /\ steady' = [m \in Messages |->
               IF GroupKey(m) # k THEN steady[m]
               ELSE IF m = s[1] /\ s[2] = 1 /\ ~Refuses(groups, s) THEN 1
               ELSE IF m = s[1] /\ steady[m] = s[2] - 1 /\ 1 < s[2] /\ s[2] < Total[m] THEN s[2]
               ELSE 0]

Older(g, limit) == [g EXCEPT !.age = IF @ < limit THEN @ + 1 ELSE @]
Tick ==
    /\ app' = [k \in GroupKeys |-> Older(app[k], Ttl + 1)]
    /\ pad' = [k \in PadGroups |-> Older(pad[k], Ttl)]
    /\ mod' = [i \in DOMAIN mod |-> Older(mod[i], ModTtl)]
    /\ waited' = [k \in GroupKeys |-> IF waited[k] > Ttl THEN waited[k] ELSE waited[k] + 1]
    /\ steady' = [m \in Messages |-> IF waited[GroupKey(m)] >= Ttl THEN 0 ELSE steady[m]]
    /\ UNCHANGED <<since, refused>>

Next == Tick \/ \E s \in Sentences : Receive(s)

Spec == Init /\ [][Next]_vars

-----------------------------------------------------------------------------
\* Every sentence in a group came after the first one of its message, and the
\* group is as old as that one: a first sentence that finds the group of an
\* earlier message inherits neither its sentences nor its time (parser.py:239).
NoStaleParts ==
    \A k \in GroupKeys :
        app[k].parts # {} => app[k].parts \subseteq since[k] /\ app[k].age = waited[k]

\* A message that was taken when it began, and whose sentences come in order
\* with none of its key in between, is kept until its last one or its time is
\* over, however many other messages there are (parser.py:237).
SteadyMessagesKept ==
    \A m \in Messages :
        steady[m] > 0 => app[GroupKey(m)].parts = {<<m, n>> : n \in 1..steady[m]}

\* A stricter receiver's parts have one key for the server as well, which took
\* the message when it began and read no sentence of it that the other refused.
Comparable(parts, total, k, refusals) ==
    /\ total = k[2] /\ \A s \in ToSet(parts) : Key[s[1]] = k[1]
    /\ k \notin refused /\ since[k] \cap refusals = {}

\* There are implementations in Python and in Swift (docs/HANDOVER.md:215).  The
\* server is the most tolerant: what the iPad or the transmitter would
\* complete it completes too.  It does not where it refused the message, where
\* it keeps sentences apart that the other joins (channels 1 and A,
\* modulator.py:28), and where it stored a sentence the other refused to read,
\* with which the true one conflicts (Parser.swift:24, modulator.py:27).
StricterAgree ==
    \A k \in GroupKeys :
        /\ \A j \in PadGroups :
            /\ pad[j].parts # <<>> /\ pad[j].age < Ttl
            /\ Comparable(pad[j].parts, j[2], k, PadRejects)
            => app[k].parts = ToSet(pad[j].parts)
        /\ \A g \in ToSet(mod) :
            g.age < ModTtl /\ Comparable(g.parts, g.total, k, ModRejects)
                => app[k].parts = ToSet(g.parts)
=============================================================================
