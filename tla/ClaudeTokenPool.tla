--------------------------- MODULE ClaudeTokenPool ---------------------------
(***************************************************************************)
(* The pool of Claude credentials of one server process                    *)
(* (server/services/claude_token_pool.py).  checkout and release run under *)
(* one lock and never wait, so each is a function of the pool's state.     *)
(*                                                                         *)
(* A credential is a model value.  last_handed is kept as the order it     *)
(* induces: recency ranks the credentials, the least recently handed first *)
(* (in the order of discovery before they are first handed out).           *)
(* exclude_profile_id is left out: no caller passes it.                    *)
(***************************************************************************)
EXTENDS Integers, FiniteSets, Functions

CONSTANTS
    Creds,     \* the discovered credentials (profile ids)
    NoCred     \* no credential

ASSUME CredsFinite == IsFiniteSet(Creds) /\ Creds # {} /\ NoCred \notin Creds

Ranks == 1..Cardinality(Creds)

\* _checked_out, the entries' in_use, and the order of their last_handed.
NewPool(tasks) ==
    [checkedOut |-> [t \in tasks |-> NoCred],
     inUse      |-> [c \in Creds |-> 0],
     recency    |-> CHOOSE f \in Injection(Creds, Ranks) : TRUE]

Free(pool) == {c \in Creds : pool.inUse[c] = 0}

\* Prefer credentials nobody holds ...
Pickable(pool) == IF Free(pool) # {} THEN Free(pool) ELSE Creds

\* ... and among them the least recently handed.
Choice(pool) ==
    CHOOSE c \in Pickable(pool) :
        \A d \in Pickable(pool) : pool.recency[c] <= pool.recency[d]

\* c has just been handed out: it is the last to be handed again.
Handed(rank, c) ==
    [d \in Creds |-> IF d = c THEN Cardinality(Creds)
                     ELSE IF rank[d] > rank[c] THEN rank[d] - 1 ELSE rank[d]]

\* A task that holds a credential gets that one again.
Checkout(pool, t) ==
    IF pool.checkedOut[t] # NoCred THEN pool
    ELSE LET c == Choice(pool)
         IN  [checkedOut |-> [pool.checkedOut EXCEPT ![t] = c],
              inUse      |-> [pool.inUse EXCEPT ![c] = @ + 1],
              recency    |-> Handed(pool.recency, c)]

Release_keepsHolder(pool, t) ==
    IF pool.checkedOut[t] = NoCred THEN pool
    ELSE [pool EXCEPT !.inUse[pool.checkedOut[t]] = IF @ > 0 THEN @ - 1 ELSE 0]

\* Returns what the task holds; releasing twice is a no-op.
Release(pool, t) ==
    IF pool.checkedOut[t] = NoCred THEN pool
    ELSE [pool EXCEPT !.checkedOut[t] = NoCred,
                      !.inUse[pool.checkedOut[t]] = IF @ > 0 THEN @ - 1 ELSE 0]

PoolState(tasks) ==
    [checkedOut : [tasks -> Creds \cup {NoCred}], inUse : [Creds -> Nat],
     recency : [Creds -> Ranks]]

Holders(pool, c) == {t \in DOMAIN pool.checkedOut : pool.checkedOut[t] = c}

\* A credential's in_use is the number of tasks that hold it: a repeated
\* checkout counts once, a repeated release gives nothing back twice.
CountsHolders(pool) == \A c \in Creds : pool.inUse[c] = Cardinality(Holders(pool, c))
=============================================================================
