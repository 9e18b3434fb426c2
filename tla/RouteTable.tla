----------------------------- MODULE RouteTable -----------------------------
(***************************************************************************)
(* dht::RouteTable and its k-buckets.  InsertNode runs on the one thread   *)
(* of MasterNode's worker and locks a bucket for one call at a time; the   *)
(* timer of a bucket refreshes it on the threads of the io_service, and a  *)
(* node is disabled when a query to it fails, between any two calls.  (The *)
(* program of today runs no such thread and sends no query: these steps    *)
(* are what the classes allow, and nothing here says that they happen.)    *)
(***************************************************************************)
EXTENDS Integers, Sequences, SequencesExt, FiniteSets

CONSTANTS
    Bits,         \* SHA1_SIZE_BITS
    K,            \* KBuckets_deep
    MasterId,     \* the id of the master
    Ids,          \* the ids of other nodes
    MaxNodes,     \* bound on the NodeClient objects made
    MaxLosses     \* bound on the nodes kicked, replaced or disabled

Guid == [1 .. Bits -> {0, 1}]

ASSUME SizesAssumption == Bits \in Nat \ {0} /\ K \in Nat \ {0} /\ MaxNodes \in Nat /\ MaxLosses \in Nat
ASSUME IdsAssumption == MasterId \in Guid /\ Ids \subseteq Guid

VARIABLES
    ids,       \* the ids of the nodes made so far; a node is its number
    disabled,  \* the nodes whose status_ is DISABLED
    buckets,   \* buckets_, each the sequence of its nodes
    armed,     \* the buckets whose last_changed_timeout_ is set
    call,      \* where the worker is in InsertNode, for which node and bucket
    added,     \* the nodes AddNode took
    removed,   \* the nodes Kick or ResetNode took out
    thrown     \* SplitTheBucket threw

vars == <<ids, disabled, buckets, armed, call, added, removed, thrown>>

Idle == [at |-> "idle", node |-> 0, bucket |-> 0]
Node == 1 .. Len(ids)
Losses == Cardinality(removed) + Cardinality(disabled)

-----------------------------------------------------------------------------
\* The bit position of the first difference from the top; -1 (which wraps, and wraps
\* back in the differences below) when there is none.
BucketDistance(a, b) == Bits - 1 - Cardinality({k \in 1 .. Bits : \A j \in 1 .. k : a[j] = b[j]})

\* The bits a node shares with the master.
Raznica(id) == Bits - 1 - BucketDistance(id, MasterId)

\* FindBucket on a table of n buckets, of which there is at least one.  Buckets are
\* counted from 1.
FindBucket(id, n) == IF Raznica(id) < n - 1 THEN Raznica(id) + 1 ELSE n

\* The table FindBucket leaves behind.
Table == IF buckets = <<>> THEN <<<<>>>> ELSE buckets

\* The nodes of b that are in S, in their order: what copy_if copies and remove_if leaves.
\* (SelectSeq, written as a recursive function so that it can be proved about.)
Kept(b, S) ==
    LET Upto[k \in 0 .. Len(b)] ==
            IF k = 0 THEN <<>> ELSE IF b[k] \in S THEN Append(Upto[k - 1], b[k]) ELSE Upto[k - 1]
    IN  Upto[Len(b)]

\* The loop of update_nodes.
Enabled(b) == Kept(b, Node \ disabled)

Numbers(b) == {b[k] : k \in 1 .. Len(b)}
InTable == UNION {Numbers(buckets[i]) : i \in 1 .. Len(buckets)}

\* Mutant: the room is not tested again after the refresh.
AddNodeForced(i, n) ==
    LET b == IF Len(buckets[i]) < K THEN buckets[i] ELSE Enabled(buckets[i]) IN
    /\ buckets' = [buckets EXCEPT ![i] = Append(b, n)]
    /\ added' = added \cup {n}
    /\ armed' = armed \cup {i}

\* Kbucket::AddNode: a full bucket is rid of its disabled nodes first.  Either way the
\* timer is set.
AddNode(i, n) ==
    LET b == IF Len(buckets[i]) < K THEN buckets[i] ELSE Enabled(buckets[i]) IN
    /\ buckets' = [buckets EXCEPT ![i] = IF Len(b) < K THEN Append(b, n) ELSE b]
    /\ added' = IF Len(b) < K THEN added \cup {n} ELSE added
    /\ armed' = armed \cup {i}

-----------------------------------------------------------------------------
(* MasterNode::TryToInsertNode and RouteTable::InsertNode. *)

Init ==
    /\ ids = <<>> /\ disabled = {}
    /\ buckets = <<>> /\ armed = {}
    /\ call = Idle
    /\ added = {} /\ removed = {} /\ thrown = FALSE

\* The worker takes a job for a node that a caller made, and finds its bucket.
InsertNode(id) ==
    /\ call = Idle /\ Len(ids) < MaxNodes
    /\ ids' = Append(ids, id)
    /\ buckets' = Table
    /\ call' = [at |-> "add", node |-> Len(ids) + 1, bucket |-> FindBucket(id, Len(Table))]
    /\ UNCHANGED <<disabled, armed, added, removed, thrown>>

\* The first AddNode; it fails in the last bucket only if that can be split.
Add ==
    /\ call.at = "add"
    /\ AddNode(call.bucket, call.node)
    /\ call' = IF call.node \in added' \/ call.bucket # Len(buckets) THEN Idle ELSE [call EXCEPT !.at = "size"]
    /\ UNCHANGED <<ids, disabled, removed, thrown>>

\* The condition of try_to_split.
TestSize ==
    /\ call.at = "size"
    /\ call' = IF Len(buckets) < Bits - 1 /\ Last(buckets) # <<>> THEN [call EXCEPT !.at = "split"] ELSE Idle
    /\ UNCHANGED <<ids, disabled, buckets, armed, added, removed, thrown>>

\* The nodes whose bits agree with the master's as far as the last bucket wants.
Stays == {n \in Node : Raznica(ids[n]) = Len(buckets) - 1}
Leaves == Node \ Stays

\* Mutant: the nodes that leave are not in the new bucket.
SplitTheBucketLosing ==
    /\ call.at = "split"
    /\ thrown' = (Last(buckets) = <<>>)
    /\ buckets' = IF thrown' THEN buckets ELSE Append(Front(buckets), Kept(Last(buckets), Stays)) \o <<<<>>>>
    /\ call' = [call EXCEPT !.at = "again"]
    /\ UNCHANGED <<ids, disabled, armed, added, removed>>

\* Mutant: the nodes of the split are exchanged.
SplitTheBucketSwapped ==
    /\ call.at = "split"
    /\ thrown' = (Last(buckets) = <<>>)
    /\ buckets' = IF thrown' THEN buckets
                  ELSE Front(buckets) \o <<Kept(Last(buckets), Leaves), Kept(Last(buckets), Stays)>>
    /\ call' = [call EXCEPT !.at = "again"]
    /\ UNCHANGED <<ids, disabled, armed, added, removed>>

\* SplitTheBucket and push_back.  The bucket may have been emptied since its test.
SplitTheBucket ==
    /\ call.at = "split"
    /\ thrown' = (Last(buckets) = <<>>)
    /\ buckets' = IF thrown' THEN buckets
                  ELSE Front(buckets) \o <<Kept(Last(buckets), Stays), Kept(Last(buckets), Leaves)>>
    /\ call' = [call EXCEPT !.at = "again"]
    /\ UNCHANGED <<ids, disabled, armed, added, removed>>

\* The second AddNode: into the bucket found before the split.
AddAgain ==
    /\ call.at = "again"
    /\ AddNode(call.bucket, call.node)
    /\ call' = Idle
    /\ UNCHANGED <<ids, disabled, removed, thrown>>

-----------------------------------------------------------------------------
(* The other calls, the timers and the network. *)

\* find_node: the place of the first node with an id, 0 if there is none.
FindNode(b, id) == SelectInSeq(b, LAMBDA n : ids[n] = id)

\* KickNode; the timer is set in any case. Neither it nor ResetNode has a caller yet; like
\* InsertNode they would be jobs of the one worker.
KickNode(id) ==
    LET i == FindBucket(id, Len(Table))
        k == FindNode(Table[i], id)
    IN  /\ call = Idle /\ Losses < MaxLosses
        /\ buckets' = IF k = 0 THEN Table ELSE [Table EXCEPT ![i] = RemoveAt(@, k)]
        /\ removed' = IF k = 0 THEN removed ELSE removed \cup {Table[i][k]}
        /\ armed' = armed \cup {i}
        /\ UNCHANGED <<ids, disabled, call, added, thrown>>

\* ResetNode of a bucket with a new object for a node it may have.
ResetNode(i, id) ==
    LET k == FindNode(buckets[i], id) IN
    /\ call = Idle /\ Len(ids) < MaxNodes /\ Losses < MaxLosses
    /\ ids' = Append(ids, id)
    /\ buckets' = IF k = 0 THEN buckets ELSE [buckets EXCEPT ![i][k] = Len(ids) + 1]
    /\ added' = IF k = 0 THEN added ELSE added \cup {Len(ids) + 1}
    /\ removed' = IF k = 0 THEN removed ELSE removed \cup {buckets[i][k]}
    /\ armed' = armed \cup {i}
    /\ UNCHANGED <<disabled, call, thrown>>

\* The timer of a bucket expires: UpdateNodes, which sets it again.  Its Ping returns
\* before it does anything.
UpdateNodes(i) ==
    /\ i \in armed
    /\ buckets' = [buckets EXCEPT ![i] = Enabled(@)]
    /\ UNCHANGED <<ids, disabled, armed, call, added, removed, thrown>>

\* A query to a node cannot be sent or is not answered in time.
QueryFails(n) ==
    /\ n \notin disabled /\ Losses < MaxLosses
    /\ disabled' = disabled \cup {n}
    /\ UNCHANGED <<ids, buckets, armed, call, added, removed, thrown>>

Next ==
    /\ ~thrown
    /\ \/ \E id \in Ids : InsertNode(id) \/ KickNode(id)
       \/ Add \/ TestSize \/ SplitTheBucket \/ AddAgain
       \/ \E i \in 1 .. Len(buckets) : UpdateNodes(i) \/ \E id \in Ids : ResetNode(i, id)
       \/ \E n \in Node : QueryFails(n)

Spec == Init /\ [][Next]_vars

-----------------------------------------------------------------------------
\* Well-formed state: no bucket is deeper than K, and there are fewer buckets than
\* buckets_ has room for, so that a reference to one outlives the next push_back.
TypeOK ==
    /\ ids \in Seq(Ids) /\ disabled \subseteq Node
    /\ buckets \in Seq(Seq(Node)) /\ Len(buckets) <= Bits
    /\ \A i \in 1 .. Len(buckets) : Len(buckets[i]) <= K
    /\ armed \subseteq 1 .. Len(buckets)
    /\ call = Idle \/ call \in [at : {"add", "size", "split", "again"}, node : Node, bucket : 1 .. Len(buckets)]
    /\ added \subseteq Node /\ removed \subseteq Node /\ thrown \in BOOLEAN

\* A bucket holds only nodes that share its prefix with the master; one that has been
\* split holds at most one that belongs further down, which the split was made for.
PrefixShared ==
    \A i \in 1 .. Len(buckets) :
        /\ \A n \in Numbers(buckets[i]) : Raznica(ids[n]) >= i - 1
        /\ i < Len(buckets) => Cardinality({n \in Numbers(buckets[i]) : Raznica(ids[n]) # i - 1}) <= 1

\* No split or refresh loses a node or has it twice: who was added is in one place of the
\* table until it is disabled, kicked or replaced.
NodesAccounted ==
    /\ added \ (disabled \cup removed) \subseteq InTable
    /\ InTable \subseteq added \ removed
    /\ \A i, j \in 1 .. Len(buckets) : \A k \in 1 .. Len(buckets[i]), m \in 1 .. Len(buckets[j]) :
          buckets[i][k] = buckets[j][m] => i = j /\ k = m
=============================================================================
