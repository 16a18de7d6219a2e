---------------------------- MODULE CheckpointSaver ----------------------------
(***************************************************************************)
(* The SQLite checkpoints of one thread of the graph.  A checkpoint names a *)
(* version of every channel, and only channels that changed are written     *)
(* again.  Runs that overlap continue from one parent; reading takes one    *)
(* statement for the checkpoint, one for each channel and one for the       *)
(* pending writes, and no transaction.                                      *)
(***************************************************************************)
EXTENDS Naturals, FiniteSets, FiniteSetsExt

CONSTANTS
    Runs,            \* invocations of the graph, and readers of its history
    SavedChannels,   \* channels of the state
    NodeWrites,      \* the sets of channels nodes write
    NoValue,         \* a channel without a value; any other names the run that computed it
    MaxCheckpoints   \* bound: checkpoints put, and deletions, in one behaviour

ASSUME SaverAssumption ==
    /\ NoValue \notin Runs
    /\ NodeWrites \subseteq (SUBSET SavedChannels) \ {{}}
    /\ MaxCheckpoints \in Nat

VARIABLES
    checkpoints,  \* langgraph_checkpoints
    blobs,        \* langgraph_blobs
    writes,       \* langgraph_writes: what nodes wrote after a checkpoint
    run,          \* what each run has read and computed
    put           \* history: the values each checkpoint was put with, and whether its run
                  \* still had its thread

saverVars == <<checkpoints, blobs, writes, run, put>>

-----------------------------------------------------------------------------
Ids == 1..MaxCheckpoints

\* A version is a count and a random part; 0 stands for no version.
NoVersion == <<0, 0>>

\* Mutant: versions are counted.
NextVersionCounted(version, id) == <<version[1] + 1, 0>>

\* get_next_version: the random part tells two runs of one parent apart.
NextVersion(version, id) == <<version[1] + 1, id>>

NothingRead == [at |-> "idle", id |-> 0, versions |-> [c \in SavedChannels |-> NoVersion],
                values |-> [c \in SavedChannels |-> NoValue], unread |-> {}, pending |-> {},
                overtaken |-> FALSE]

SaverInit ==
    /\ checkpoints = {}
    /\ blobs = {}
    /\ writes = {}
    /\ run = [r \in Runs |-> NothingRead]
    /\ put = [i \in {} |-> [values |-> NothingRead.values, whole |-> TRUE]]

\* Ids grow with time.
NextId == Cardinality(DOMAIN put) + 1

LatestId == Max({0} \cup {k.id : k \in checkpoints})

\* get_tuple; list reads other rows in the same way.
ReadRow(r) ==
    /\ run[r].at = "idle"
    /\ \/ /\ checkpoints = {}
          /\ run' = [run EXCEPT ![r].at = "loaded"]
       \/ \E k \in checkpoints :
             /\ k.id = LatestId
             /\ run' = [run EXCEPT ![r] = [NothingRead EXCEPT
                    !.at = "reading", !.id = k.id, !.versions = k.versions, !.unread = SavedChannels]]
    /\ UNCHANGED <<checkpoints, blobs, writes, put>>

\* _load_blobs: a channel whose blob is missing is left out.
ReadBlob(r, c) ==
    LET found == {b \in blobs : b.channel = c /\ b.version = run[r].versions[c]}
    IN  /\ run[r].at = "reading"
        /\ c \in run[r].unread
        /\ run' = [run EXCEPT ![r].unread = @ \ {c},
                              ![r].values[c] = IF found = {} THEN NoValue
                                               ELSE (CHOOSE b \in found : TRUE).value]
        /\ UNCHANGED <<checkpoints, blobs, writes, put>>

ReadWrites(r) ==
    /\ run[r].at = "reading"
    /\ run[r].unread = {}
    /\ run' = [run EXCEPT ![r].at = "loaded",
                          ![r].pending = {w \in writes : w.id = run[r].id}]
    /\ UNCHANGED <<checkpoints, blobs, writes, put>>

\* put_writes: the results of a node; those saved before stay.
PutWrites(r, channels) ==
    LET Saved(c) == \E w \in writes : w.id = run[r].id /\ w.channel = c
        Result(c) == [id |-> run[r].id, channel |-> c, value |-> r]
    IN  /\ run[r].at = "loaded"
        /\ run[r].id # 0
        /\ run[r].pending = {}
        /\ writes' = writes \cup {Result(c) : c \in {d \in channels : ~Saved(d)}}
        /\ run' = [run EXCEPT ![r].pending = {Result(c) : c \in channels}]
        /\ UNCHANGED <<checkpoints, blobs, put>>

\* The first checkpoint holds the input, a later one what the node wrote.
Results(r) ==
    [c \in SavedChannels |->
        IF run[r].id = 0 THEN r
        ELSE IF \E w \in run[r].pending : w.channel = c
             THEN (CHOOSE w \in run[r].pending : w.channel = c).value ELSE run[r].values[c]]

Changed(r) == IF run[r].id = 0 THEN SavedChannels ELSE {w.channel : w \in run[r].pending}

\* put: blobs of the new versions, and the row, in one transaction.
Put(r) ==
    LET id == NextId
        versions == [c \in SavedChannels |->
            IF c \in Changed(r) THEN NextVersion(run[r].versions[c], id) ELSE run[r].versions[c]]
    IN  /\ run[r].at = "loaded"
        /\ id \in Ids
        /\ Changed(r) # {}
        /\ blobs' = {b \in blobs : ~(b.channel \in Changed(r) /\ b.version = versions[b.channel])}
                    \cup {[channel |-> c, version |-> versions[c], value |-> Results(r)[c]] :
                             c \in Changed(r)}
        /\ checkpoints' = checkpoints \cup
               {[id |-> id, parent |-> run[r].id, versions |-> versions]}
        /\ put' = [i \in 1..id |-> IF i = id
               THEN [values |-> Results(r), whole |-> ~run[r].overtaken] ELSE put[i]]
        /\ run' = [run EXCEPT ![r] = [@ EXCEPT
               !.id = id, !.versions = versions, !.values = Results(r), !.pending = {}]]
        /\ UNCHANGED writes

\* Everything of the thread, in one transaction; runs go on with what they hold.
ForgetThread ==
    /\ checkpoints # {}
    /\ NextId \in Ids
    /\ checkpoints' = {}
    /\ blobs' = {}
    /\ writes' = {}
    /\ run' = [r \in Runs |-> [run[r] EXCEPT !.overtaken = run[r].at # "idle"]]
    /\ put' = [i \in 1..NextId |-> [values |-> NothingRead.values, whole |-> FALSE]]

\* The graph has come to its end or to the gate, or the process dies.
End(r) ==
    /\ run[r].at # "idle"
    /\ run' = [run EXCEPT ![r] = NothingRead]
    /\ UNCHANGED <<checkpoints, blobs, writes, put>>

SaverNext ==
    \/ \E r \in Runs :
          \/ ReadRow(r)
          \/ \E c \in SavedChannels : ReadBlob(r, c)
          \/ ReadWrites(r)
          \/ \E channels \in NodeWrites : PutWrites(r, channels)
          \/ Put(r)
          \/ End(r)
    \/ ForgetThread

-----------------------------------------------------------------------------
(* Properties                                                                *)

\* A checkpoint that is read back holds what it was put with, in every channel, whichever
\* runs continued from the same parent and although only changes are stored; unless the
\* thread was deleted while it was read, or while the run that put it was under way
\* (put, get_tuple).
CheckpointsReadBackWhole ==
    \A r \in Runs :
        run[r].at = "loaded" /\ run[r].id # 0 /\ ~run[r].overtaken
            => (put[run[r].id].whole => run[r].values = put[run[r].id].values)
===============================================================================
