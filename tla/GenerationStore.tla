---------------------------- MODULE GenerationStore ----------------------------
(***************************************************************************)
(* What a search may rely on, whatever sessions, jobs, leases, workers and  *)
(* retries do behind it: an index changes only by atomic publications. One  *)
(* publication takes a set S of stored messages, splits it into chunks, and *)
(* replaces every published chunk that touches S (or, for a rebuild, every  *)
(* chunk) by these. Texts are only replaced by newer ones, and a chunk      *)
(* holds texts that its messages had. IndexingPipeline implements it.       *)
(***************************************************************************)
EXTENDS Integers

CONSTANTS
    Messages, Indexes,
    Replaceable,   \* the indexes that may be rebuilt as a whole
    MaxVersion

VARIABLES
    text,      \* the version of the text of every message, 0 for none
    search     \* the chunks that a search of the index can return

storeVars == <<text, search>>

Known == {m \in Messages : text[m] > 0}

\* The ways to cut S into pairwise disjoint parts.
Cuts(S) ==
    {P \in SUBSET SUBSET S :
        UNION P = S /\ \A p, q \in P : p # q => p \cap q = {}}

Init ==
    /\ text \in [Messages -> 0..1]
    /\ search = [i \in Indexes |-> {}]

Write ==
    /\ text' \in [Messages -> 0..MaxVersion]
    /\ \A m \in Messages : text[m] <= text'[m]
    /\ UNCHANGED search

Untouched(i, S) == {c \in search[i] : DOMAIN c \cap S = {}}

\* The chunks of the parts P, each message with the text of version t.
Generation(P, t) == {[m \in p |-> t[m]] : p \in P}

Publish(i, S, P, t) ==
    /\ \A m \in S : t[m] <= text[m]
    /\ \/ search' = [search EXCEPT ![i] = Untouched(i, S) \cup Generation(P, t)]
       \/ i \in Replaceable /\ search' = [search EXCEPT ![i] = Generation(P, t)]
    /\ UNCHANGED text

Clear ==
    /\ text' = [m \in Messages |-> 0]
    /\ search' = [i \in Indexes |-> {}]

Next ==
    \/ Write
    \/ \E i \in Indexes : \E S \in SUBSET Known :
          \E P \in Cuts(S) : \E t \in [S -> 1..MaxVersion] : Publish(i, S, P, t)
    \/ Clear

Spec == Init /\ [][Next]_storeVars
=============================================================================
