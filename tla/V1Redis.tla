------------------------------ MODULE V1Redis ------------------------------
(***************************************************************************)
(* The commands that version 1 sends to its datastore: Redis, or the       *)
(* Memory backend that stands in for it.  A database maps the keys that    *)
(* exist to numbers and to sorted sets of <<score, value>>.                *)
(*                                                                         *)
(* A key is what the schema tells apart: <<resource, counter>>,            *)
(* <<resource, state>> or <<resource, metric, period>>.                    *)
(***************************************************************************)
EXTENDS Integers, SequencesExt

CONSTANTS
  NaN,   \* a value that does not parse as a number
  Nil    \* no value

ASSUME ValuesAssumption == NaN \notin Int /\ Nil \notin Int /\ NaN # Nil

generateCounter(r, metric) == <<r, metric>>
generateStateKey(r, metric) == <<r, metric>>
generateKey(r, metric, t) == <<r, metric, t>>

Counters == {"storageUtilizedCounter", "numberOfObjectsCounter"}
StateKeys == {"storageUtilized", "numberOfObjects"}

Value(db, k, none) == IF k \in DOMAIN db THEN db[k] ELSE none

Put(db, k, v) == [x \in DOMAIN db \cup {k} |-> IF x = k THEN v ELSE db[x]]

incrby(db, k, n) == Put(db, k, Value(db, k, 0) + n)

zadd(db, k, t, v) == Put(db, k, Value(db, k, {}) \cup {<<t, v>>})

\* A sorted set that is empty is a key that does not exist.
zremrangebyscore(db, k, t) ==
  LET left == {e \in Value(db, k, {}) : e[1] # t}
  IN  IF left = {} THEN Restrict(db, DOMAIN db \ {k}) ELSE Put(db, k, left)

zrangebyscore(db, k, t) == {e[2] : e \in {x \in Value(db, k, {}) : x[1] = t}}

\* ZREVRANGEBYSCORE k t -inf LIMIT 0 1: the value with the highest score.
Latest(db, k, t) ==
  LET older == {e \in Value(db, k, {}) : e[1] =< t}
  IN  IF older = {} THEN Nil
      ELSE (CHOOSE e \in older : \A f \in older : f[1] =< e[1])[2]

Cmd(op, k, arg) == [op |-> op, key |-> k, arg |-> arg]

Effect(db, c) ==
  CASE c.op = "incrby" -> incrby(db, c.key, c.arg)
    [] c.op = "set" -> Put(db, c.key, c.arg)
    [] c.op = "zremrangebyscore" -> zremrangebyscore(db, c.key, c.arg)
    [] c.op = "zadd" -> zadd(db, c.key, c.arg[1], c.arg[2])
    [] OTHER -> db

\* The keys that lose their time to live: those that are set or removed, even if
\* a later command of the transaction makes them again.
Persisted(db, cmds) ==
  {c.key : c \in {x \in ToSet(cmds) : x.op = "set" \/ x.key \notin DOMAIN Effect(db, x)}}

\* A transaction.
batch(db, cmds) ==
  LET after[n \in 0..Len(cmds)] ==
        IF n = 0 THEN db
        ELSE CHOOSE d \in {Effect(e, cmds[n]) : e \in {after[n - 1]}} : TRUE
  IN  after[Len(cmds)]

\* Its replies, of which a client uses those of commands that have their key to
\* themselves: what such a command leaves there, the transaction leaves there.
Reply(after, c) ==
  CASE c.op \in {"incrby", "get"} -> Value(after, c.key, Nil)
    [] c.op = "zrangebyscore" -> zrangebyscore(after, c.key, c.arg)
    [] OTHER -> "OK"

Replies(after, cmds) == [n \in DOMAIN cmds |-> Reply(after, cmds[n])]

\* The snapshot of a counter for a period replaces the one before.
Snapshot(r, metric, t, v) ==
  << Cmd("zremrangebyscore", generateStateKey(r, metric), t),
     Cmd("zadd", generateStateKey(r, metric), <<t, v>>) >>
=============================================================================
