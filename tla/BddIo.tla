-------------------------------- MODULE BddIo ---------------------------------
(***************************************************************************)
(* serialize, deserialize and print of src/src/tobdd.rs beside the rest of *)
(* the Manager: BddManager with threads that also write BDDs to a stream   *)
(* and read them from it. serialize and print take no lock; deserialize    *)
(* takes a read guard.                                                     *)
(*                                                                         *)
(* A stream is a sequence of records; what it says in its two header words *)
(* is that its ids of the terminals are those of the terminals. An id is   *)
(* the address a node had in the manager that wrote it. At first there is  *)
(* a stream that another manager wrote.                                    *)
(*                                                                         *)
(* The build is one with debug assertions. A ref_cnt that is negative here *)
(* has wrapped around at zero: it is not zero, which is all that is asked. *)
(***************************************************************************)
EXTENDS BddManager, Integers

CONSTANTS
  Mark,         \* MARK: a bit no level has
  Files,        \* the streams that may be there at first
  Wanted        \* bound: the nodes that clients serialize

\* The level of a record without its MARK.
Unmarked(record) == IF record.level > NumVars THEN record.level - Mark ELSE record.level

\* In the n-th record of s, id is that of a node of the function f, below the
\* level of the record: a terminal, or of an earlier record.
Stands(s, n, id, f) ==
  \/ id = TrueId /\ f = Assignments
  \/ id = FalseId /\ f = {}
  \/ \E m \in 1 .. n - 1 :
       s[m].id = id /\ s[m].den = f /\ Unmarked(s[m]) > Unmarked(s[n])

\* The functions there are before the n-th record of s.
Earlier(s, n) == {{}, Assignments} \union {s[m].den : m \in 1 .. n - 1}

\* What a manager writes: the nodes of a diagram, children first.
WellFormed(s) ==
  /\ s \in Seq([id : Nat, level : Nat, low : Nat, high : Nat, den : SUBSET Assignments])
  /\ \A n \in 1 .. Len(s) :
       /\ s[n].id \notin Terminals
       /\ Unmarked(s[n]) \in Vars
       /\ \E lo, hi \in Earlier(s, n) :
            /\ Stands(s, n, s[n].low, lo) /\ Stands(s, n, s[n].high, hi)
            /\ s[n].den = Mux(Unmarked(s[n]), lo, hi)
  /\ \A m, n \in 1 .. Len(s) : s[m].id = s[n].id => s[m].den = s[n].den

ASSUME MarkAssumption == Mark \in Nat /\ Mark > NumVars

ASSUME FilesAssumption == \A s \in Files : WellFormed(s)

VARIABLES
  stream,       \* the records: id, level, low, high, and their function (history)
  todo,         \* the nodes each serialize has yet to write, in order
  cut,          \* how many whole records each deserialize finds
  pos,          \* how many of them it has read
  map,          \* map: what each id in the stream stands for
  ret,          \* ret: the last node made
  lost          \* history: the nodes of which a deserialize lost a reference

readVars == <<cut, pos, map, ret>>
ioVars == <<stream, todo, readVars, lost>>
managerVars == <<nodes, key, den, numEntry, marked, sizeVars, cache, loadVars, recVars>>

NoMap == [id \in {} |-> Null]

IoInit ==
  /\ Init
  /\ stream \in Files
  /\ todo = [t \in Threads |-> <<>>]
  /\ cut = [t \in Threads |-> 0]
  /\ pos = [t \in Threads |-> 0]
  /\ map = [t \in Threads |-> NoMap]
  /\ ret = [t \in Threads |-> Null]
  /\ lost = {}

-----------------------------------------------------------------------------
(* serialize.                                                              *)

\* write_buffer_rec: children first, shared nodes as often as they are met.
Visit(root) ==
  LET of[i \in 0 .. NumVars] ==
        [a \in Addr |->
           IF i = 0 \/ a \in Terminals THEN <<>>
           ELSE of[i - 1][Low(a)] \o of[i - 1][High(a)] \o <<a>>]
  IN  of[NumVars][root]

\* Bound: the stream is one client's at a time.
StreamFree == \A t \in Threads : pc[t] \notin {"write", "open", "read", "ref"}

BeginSerialize(t, a) ==
  /\ MayCall(t)
  /\ IsOperand(t, a) /\ a \in Wanted
  /\ StreamFree
  /\ stream' = <<>>
  /\ todo' = [todo EXCEPT ![t] = Visit(a)]
  /\ calls' = [calls EXCEPT ![t] = @ + 1]
  /\ Goto(t, "write")
  /\ UNCHANGED <<managerVars, refs, lockVars, call, owned, readVars, lost>>

\* Mutation: the children are in the wrong order.
Swapped(a) ==
  [id |-> a, level |-> Level(a) + IF a \in marked THEN Mark ELSE 0,
   low |-> High(a), high |-> Low(a), den |-> den[a]]

Record(a) ==
  [id |-> a, level |-> Level(a) + IF a \in marked THEN Mark ELSE 0,
   low |-> Low(a), high |-> High(a), den |-> den[a]]

\* Nothing keeps a collection from marking meanwhile.
WriteRecord(t) ==
  /\ pc[t] = "write" /\ todo[t] # <<>>
  /\ stream' = Append(stream, Record(Head(todo[t])))
  /\ todo' = [todo EXCEPT ![t] = Tail(@)]
  /\ UNCHANGED <<managerVars, refs, lockVars, pc, clientVars, readVars, lost>>

EndSerialize(t) ==
  /\ pc[t] = "write" /\ todo[t] = <<>>
  /\ Goto(t, "idle")
  /\ UNCHANGED <<managerVars, refs, lockVars, clientVars, ioVars>>

-----------------------------------------------------------------------------
(* deserialize.                                                            *)

\* The stream may end early, in the middle of a record too.
BeginDeserialize(t, n) ==
  /\ MayCall(t)
  /\ StreamFree
  /\ cut' = [cut EXCEPT ![t] = n]
  /\ calls' = [calls EXCEPT ![t] = @ + 1]
  /\ Goto(t, "open")
  /\ UNCHANGED <<managerVars, refs, lockVars, call, owned, stream, todo, pos, map, ret,
                 lost>>

\* The guard is there, the map is empty and the header is read.
Open(t) ==
  /\ pc[t] = "open"
  /\ Lock!AcquireRead(t)
  /\ Goto(t, "read")
  /\ UNCHANGED <<managerVars, refs, clientVars, ioVars>>

\* What a deserialize had goes with its stack.
Unwind(t) ==
  /\ cut' = [cut EXCEPT ![t] = 0]
  /\ pos' = [pos EXCEPT ![t] = 0]
  /\ map' = [map EXCEPT ![t] = NoMap]
  /\ ret' = [ret EXCEPT ![t] = Null]

Upcoming(t) == stream[pos[t] + 1]

\* The terminals' ids are in the map from the header.
Mapped(t, id) == IF id \in Terminals THEN id ELSE map[t][id]

Reading(t) == pc[t] = "read" /\ pos[t] < cut[t]

ReadRecord(t) ==
  /\ Reading(t)
  /\ Upcoming(t).level <= NumVars
  /\ \E a \in Addr :
       /\ MakeNode(Upcoming(t).level, Mapped(t, Upcoming(t).low),
                   Mapped(t, Upcoming(t).high), a)
       /\ ret' = [ret EXCEPT ![t] = a]
  /\ Goto(t, "ref")
  /\ UNCHANGED <<marked, sizeVars, cache, lockVars, loadVars, recVars, clientVars,
                 stream, todo, cut, pos, map, lost>>

\* A record the stream has again takes the place of the first one in the map.
RefRecord(t) ==
  /\ pc[t] = "ref"
  /\ refs' = [refs EXCEPT ![ret[t]] = @ + 1]
  /\ map' = [map EXCEPT ![t] =
                [id \in DOMAIN @ \union {Upcoming(t).id} |->
                   IF id = Upcoming(t).id THEN ret[t] ELSE map[t][id]]]
  /\ lost' = lost \union IF Upcoming(t).id \in DOMAIN map[t] THEN {ret[t]} ELSE {}
  /\ pos' = [pos EXCEPT ![t] = @ + 1]
  /\ Goto(t, "read")
  /\ UNCHANGED <<nodes, key, den, numEntry, marked, sizeVars, cache, lockVars, loadVars,
                 recVars, clientVars, stream, todo, cut, ret>>

\* debug_assert!(level <= self.num_vars), of a record that has a MARK.
LevelPanic(t) ==
  /\ Reading(t)
  /\ Upcoming(t).level > NumVars
  /\ Lock!ReleaseRead(t)
  /\ lost' = lost \union {map[t][id] : id \in DOMAIN map[t]}
  /\ Unwind(t)
  /\ Goto(t, "panicked")
  /\ UNCHANGED <<managerVars, refs, clientVars, stream, todo>>

\* Mutation: the nodes of the map are not dropped.
DropsTerminals(t, a) == IF a \in Terminals THEN 1 ELSE 0

\* How often the map has a.
Drops(t, a) ==
  (IF a \in Terminals THEN 1 ELSE 0)
    + Cardinality({id \in DOMAIN map[t] : map[t][id] = a})

\* Mutation: what is returned is not referenced again.
NotKept(t, a) == 0

Kept(t, a) == IF a = ret[t] THEN 1 ELSE 0

\* The end of the stream: each node of the map is dropped, the terminals too, and
\* the last one made is returned.
ReadEnd(t) ==
  /\ pc[t] = "read" /\ pos[t] = cut[t]
  /\ ret[t] # Null
  /\ refs' = [a \in Addr |-> refs[a] + Kept(t, a) - Drops(t, a)]
  /\ owned' = [owned EXCEPT ![t][ret[t]] = @ + 1]
  /\ Unwind(t)
  /\ Goto(t, "close")
  /\ UNCHANGED <<nodes, key, den, numEntry, marked, sizeVars, cache, lockVars, loadVars,
                 recVars, call, calls, stream, todo, lost>>

\* The ReadGuard is dropped and deserialize returns.
Close(t) ==
  /\ pc[t] = "close"
  /\ Lock!ReleaseRead(t)
  /\ Goto(t, "idle")
  /\ UNCHANGED <<managerVars, refs, clientVars, ioVars>>

\* No record, as for a terminal: ret is still the null pointer when ref_bdd
\* dereferences it.
NullRet(t) ==
  /\ pc[t] = "read" /\ pos[t] = cut[t]
  /\ ret[t] = Null
  /\ Goto(t, "crashed")
  /\ UNCHANGED <<managerVars, refs, lockVars, clientVars, ioVars>>

-----------------------------------------------------------------------------

Serialize(t) ==
  \/ \E a \in Addr : BeginSerialize(t, a)
  \/ WriteRecord(t)
  \/ EndSerialize(t)

Deserialize(t) ==
  \/ \E n \in 0 .. Len(stream) : BeginDeserialize(t, n)
  \/ Open(t)
  \/ ReadRecord(t)
  \/ RefRecord(t)
  \/ LevelPanic(t)
  \/ ReadEnd(t)
  \/ Close(t)
  \/ NullRet(t)

IoNext ==
  /\ \A t \in Threads : pc[t] # "crashed"
  /\ \/ Next /\ UNCHANGED ioVars
     \/ \E t \in Threads : Serialize(t) \/ Deserialize(t)

IoSpec == IoInit /\ [][IoNext]_<<vars, ioVars>>

-----------------------------------------------------------------------------
(* print.                                                                  *)

\* Mutation: a variable that the node tests is taken for one it skips.
SkipsTested(a, curr) == Level(a) >= curr

Skips(a, curr) == Level(a) > curr

\* The lines that have c before what the lines of the rest have.
With(c, lines) == [i \in DOMAIN lines |-> <<c>> \o lines[i]]

\* The lines of fmt_rec, one character for each variable; left is how many variables
\* there are from curr on.
Lines(root) ==
  LET of[left \in 0 .. NumVars] ==
        [a \in Addr |->
           IF left = 0 THEN <<<<>>>>
           ELSE IF Skips(a, NumVars - left) \/ a = TrueId
           THEN With("*", of[left - 1][a])
           ELSE (IF Low(a) = FalseId THEN <<>> ELSE With("0", of[left - 1][Low(a)]))
                \o (IF High(a) = FalseId THEN <<>> ELSE With("1", of[left - 1][High(a)]))]
  IN  of[NumVars][root]

\* The assignments that a line stands for.
Cube(line) ==
  {s \in Assignments : \A v \in Vars : line[v + 1] # "*" => (line[v + 1] = "1") = (v \in s)}

-----------------------------------------------------------------------------
(* Properties.                                                             *)

\* Each record that deserialize reads, of a stream of this manager or another,
\* complete or not, becomes a node of the function that the written node had.
ReadsBack ==
  \A t \in Threads : pc[t] = "ref" => den[ret[t]] = Upcoming(t).den

\* Between calls, a node's ref_cnt is the number of references its clients hold,
\* except where deserialize lost one: what it made on the way is garbage.
OnlyLostLeak ==
  (\A t \in Threads : pc[t] \notin {"read", "ref"}) =>
    \A a \in nodes \ (Permanent \union lost) :
      refs[a] = Cardinality(Held(a))

\* print's lines are disjoint, and together the function of what it prints, as
\* long as no collection marks nodes meanwhile.
PrintsTheFunction ==
  marked = {} =>
    \A a \in nodes \ Terminals :
      LET lines == Lines(a)
      IN  /\ \A i, j \in DOMAIN lines : i # j => Cube(lines[i]) \intersect Cube(lines[j]) = {}
          /\ UNION {Cube(lines[i]) : i \in DOMAIN lines} = den[a]

-----------------------------------------------------------------------------
(* What an assertion of deserialize says and serialize does not keep to,    *)
(* because it reads levels without a guard.                                 *)

\* debug_assert!(level <= self.num_vars) in deserialize holds of each record.
LevelInRange ==
  \A t \in Threads : Reading(t) => Upcoming(t).level <= NumVars

=============================================================================
