----------------------------- MODULE GroupIndex -----------------------------
(***************************************************************************)
(* The index of a group, from the legs that register in it to the watcher  *)
(* that lists it: the opening of handleStream (internal/server/ws.go),     *)
(* Join, Members and deleteGroup (internal/storage/group.go) and           *)
(* handleGroup (handlers.go), under the names of Naming.                   *)
(*                                                                         *)
(* A line of the file is a registration, or what is left of some.          *)
(***************************************************************************)
EXTENDS Naming, FiniteSets

CONSTANTS
    Legs,      \* the clients of a run
    Envs,      \* environments they and a watcher can have
    MaxClock,  \* bound: the clock
    MaxLines,  \* bound: registrations written to an index, torn ones included
    MaxTears,  \* bound: writes that fail half way
    TTL        \* Options.TTL

ASSUME GroupAssumption ==
    /\ MaxClock \in Nat /\ MaxLines \in Nat /\ MaxTears \in Nat /\ TTL \in Nat
    /\ Envs \subseteq Environment

VARIABLES
    env,       \* env[l]: the environment of leg l
    clock,
    handler,   \* handler[l]: where the newest handler of leg l is
    at,        \* at[l]: the time it put in its line
    index,     \* index[g]: the lines of the file of group g
    ragged,    \* groups whose file does not end with a line end
    linked,    \* groups that have a file
    mtime,     \* mtime[g]: when that was last written
    tears,     \* writes that have failed half way, bounded by MaxTears
    accepted   \* history: accepted[g]: the lines that Join has acknowledged

groupVars == <<env, clock, handler, at, index, ragged, linked, mtime,
               tears, accepted>>

\* What an environment makes of a dial, and of a command that lists.
Dialled  == [e \in Envs |-> streamURL(e)]
GroupArg == [e \in Envs |-> getStreamGroup(e)]

Groups == {GroupArg[e] : e \in Envs} \ {None}

GroupOf(l) == Dialled[env[l]].group
TokenOf(l) == Dialled[env[l]].token

Line(l) == [garbage |-> FALSE, token |-> TokenOf(l), label |-> Dialled[env[l]].label,
            at |-> at[l]]
Garbage == [garbage |-> TRUE, token |-> None, label |-> None, at |-> 0]

Init ==
    /\ env \in [Legs -> Envs]
    /\ clock = 0
    /\ handler = [l \in Legs |-> "none"]
    /\ at = [l \in Legs |-> 0]
    /\ index = [g \in Groups |-> <<>>]
    /\ ragged = {} /\ linked = {}
    /\ mtime = [g \in Groups |-> 0]
    /\ tears = 0
    /\ accepted = [g \in Groups |-> {}]

-----------------------------------------------------------------------------
\* The file.

\* What O_APPEND makes of the file: a line that a torn one precedes is glued to
\* it, and neither can be read.
AppendLine(g, line) ==
    IF g \in ragged THEN [index[g] EXCEPT ![Len(index[g])] = Garbage]
    ELSE Append(index[g], line)

Writes(g, line, whole) ==
    /\ Len(index[g]) < MaxLines
    /\ index' = [index EXCEPT ![g] = AppendLine(g, line)]
    /\ ragged' = IF whole THEN ragged \ {g} ELSE ragged \cup {g}
    /\ linked' = linked \cup {g}
    /\ mtime' = [mtime EXCEPT ![g] = clock]

-----------------------------------------------------------------------------
\* The handlers.

\* A leg dials, for the first time or after its connection was dropped: Join
\* takes the time, and the cap and the shard come later.
Stamp(l) ==
    /\ handler[l] # "stamped" /\ GroupOf(l) # None
    /\ handler' = [handler EXCEPT ![l] = "stamped"]
    /\ at' = [at EXCEPT ![l] = clock]
    /\ UNCHANGED <<env, clock, index, ragged, linked, mtime, tears, accepted>>

\* A leg without a group opens its stream unregistered.
OpensUnlisted(l) ==
    /\ GroupOf(l) = None
    /\ handler' = [handler EXCEPT ![l] = "open"]
    /\ UNCHANGED <<env, clock, at, index, ragged, linked, mtime, tears, accepted>>

\* The line is written, and the handler goes on to the hello.
Join(l) ==
    LET g == GroupOf(l)
    IN /\ handler[l] = "stamped"
       /\ Writes(g, Line(l), TRUE)
       /\ handler' = [handler EXCEPT ![l] = "open"]
       /\ accepted' = [accepted EXCEPT ![g] = @ \cup {Line(l)}]
       /\ UNCHANGED <<env, clock, at, tears>>

\* The disk is full, or the file does not open: the connection is refused.
JoinFails(l) ==
    /\ handler[l] = "stamped"
    /\ handler' = [handler EXCEPT ![l] = "refused"]
    /\ UNCHANGED <<env, clock, at, index, ragged, linked, mtime, tears, accepted>>

\* The write fails after some bytes, perhaps all but the line end.
JoinTears(l) ==
    LET g == GroupOf(l)
    IN /\ handler[l] = "stamped"
       /\ tears < MaxTears /\ tears' = tears + 1
       /\ \E line \in {Garbage, Line(l)} : Writes(g, line, FALSE)
       /\ handler' = [handler EXCEPT ![l] = "refused"]
       /\ UNCHANGED <<env, clock, at, accepted>>

-----------------------------------------------------------------------------
\* The sweeper deletes an index that has not been written to for long.
Sweeps(g) ==
    /\ g \in linked /\ clock - mtime[g] > TTL
    /\ index' = [index EXCEPT ![g] = <<>>]
    /\ ragged' = ragged \ {g}
    /\ linked' = linked \ {g}
    /\ accepted' = [accepted EXCEPT ![g] = {}]
    /\ UNCHANGED <<env, clock, handler, at, mtime, tears>>

Tick ==
    /\ clock < MaxClock
    /\ clock' = clock + 1
    /\ UNCHANGED <<env, handler, at, index, ragged, linked, mtime, tears, accepted>>

Next ==
    \/ \E l \in Legs : Stamp(l) \/ OpensUnlisted(l) \/ Join(l) \/ JoinFails(l) \/ JoinTears(l)
    \/ \E g \in Groups : Sweeps(g)
    \/ Tick

Spec == Init /\ [][Next]_groupVars

-----------------------------------------------------------------------------
\* Members.

\* Mutant: the first line that cannot be read ends the index.
UpToTorn(lines) ==
    {i \in DOMAIN lines : \A j \in 1..i : ~lines[j].garbage}

\* The lines that can be read.
Readable(lines) == {i \in DOMAIN lines : ~lines[i].garbage}

Of(lines, tok) == {i \in Readable(lines) : lines[i].token = tok}
First(lines, tok) == CHOOSE i \in Of(lines, tok) : \A j \in Of(lines, tok) : i <= j

\* Mutant: the latest label, named or not.
LastLabel(lines, tok) ==
    lines[CHOOSE i \in Of(lines, tok) : \A j \in Of(lines, tok) : j <= i].label

\* The first label that is one.
Label(lines, tok) ==
    LET named == {i \in Of(lines, tok) : lines[i].label # None}
    IN IF named = {} THEN None
       ELSE lines[CHOOSE i \in named : \A j \in named : i <= j].label

Member(lines, tok) ==
    [token |-> tok, label |-> Label(lines, tok),
     first |-> lines[First(lines, tok)].at,
     last  |-> CHOOSE t \in {lines[i].at : i \in Of(lines, tok)} :
                  \A i \in Of(lines, tok) : lines[i].at <= t]

Tokens(lines) == {lines[i].token : i \in Readable(lines)}

\* By the time of the first line, and by its place where times agree.
Before(lines, a, b) ==
    LET first == First(lines, a)
        then  == First(lines, b)
    IN lines[first].at < lines[then].at \/ (lines[first].at = lines[then].at /\ first < then)

Order(lines) ==
    CHOOSE s \in SetToSeqs(Tokens(lines)) :
        \A i, j \in DOMAIN s : i < j => Before(lines, s[i], s[j])

Members(lines) ==
    LET order == Order(lines)
    IN [k \in DOMAIN order |-> Member(lines, order[k])]

Listing(g) == IF g \in linked THEN Members(index[g]) ELSE <<>>

-----------------------------------------------------------------------------
\* Properties.

\* A write that fails half way costs the index at most one registration that
\* was acknowledged, the one that lands behind it, and never what else is there
\* (group.go:93, "a torn or foreign line must not lose the rest of the index").
LostPerTear ==
    \A g \in Groups :
        LET lines == index[g]
        IN Cardinality(accepted[g] \ {lines[i] : i \in Readable(lines)})
              <= Cardinality({i \in DOMAIN lines : lines[i].garbage})

\* new lists what old does, each once and in the order of old, and may tell more
\* of it.
Extends(new, old) ==
    /\ \A k \in DOMAIN old : \E i \in DOMAIN new :
          /\ new[i].token = old[k].token /\ new[i].first = old[k].first
          /\ new[i].last >= old[k].last
          /\ old[k].label # None => new[i].label = old[k].label
    /\ \A j, k \in DOMAIN old, h, i \in DOMAIN new :
          new[h].token = old[j].token /\ new[i].token = old[k].token => (h < i <=> j < k)

\* A watcher that lists again finds what it had (group.go:72, "in registration
\* order"): while an index grows no stream leaves it, changes its place among
\* the others or loses its label, though the lines of several handlers land
\* out of the order of their times and repeat each other.
ListingStable ==
    [][\A g \in (linked \cap linked') \ ragged :
           \A old \in {Members(index[g])}, new \in {Members(index'[g])} :
               Extends(new, old)]_groupVars

RunOf(e) == Or(e.context, e.run)

\* A watcher finds every leg of its run with the key and the run alone
\* (root.go:135-136, streams.go:27-30), whatever job and name the leg has,
\* however either was told its run, and hands back the token of its stream.
WatcherFinds ==
    \A l \in Legs : LET e == env[l] IN
        \A watcher \in {w \in Envs : w.key = e.key /\ RunOf(w) = RunOf(e)} :
            /\ e.group = None /\ watcher.group = None /\ GroupOf(l) # None
            /\ \A i \in DOMAIN index[GroupOf(l)] : ~index[GroupOf(l)][i].garbage
            /\ \E line \in accepted[GroupOf(l)] : line.token = TokenOf(l)
            => TokenOf(l) \in {m.token : m \in Range(Listing(GroupArg[watcher]))}

\* The legs of a run that names its jobs and gives nothing by hand are told
\* apart: two streams of a listing never have one label (root.go:151-153, "the
\* name that separates the streams has to separate the labels too"), and legs
\* of different names never share a stream (token.go:45-46).
LegsApart ==
    /\ \A l \in Legs : LET e == env[l]
                       IN e.job # None /\ e.token = None /\ e.label = None /\ e.group = None
    /\ \A l, m \in Legs : env[l].context # None <=> env[m].context # None
    => \A g \in Groups :
          /\ \A m, n \in Range(Listing(g)) : m # n => m.label # n.label
          /\ \A l, m \in Legs : GroupOf(l) = g /\ GroupOf(m) = g /\ env[l].name # env[m].name
                => TokenOf(l) # TokenOf(m)
=============================================================================
