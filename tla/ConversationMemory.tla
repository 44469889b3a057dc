-------------------------- MODULE ConversationMemory --------------------------
(***************************************************************************)
(* What the conversation memory promises (orchestration/memory.py): every  *)
(* append_turn takes effect at once, on the session the appends before it  *)
(* left.  The in-process memory does this under one asyncio lock.          *)
(* ChatTurns promises it with Redis and is shown to implement this module. *)
(***************************************************************************)
EXTENDS Subsequences

CONSTANTS
    Sessions,
    Turns,              \* what a conversation turn says: here, the call it is of
    NameLists,          \* the entities a turn may name: sequences of names
    Repositories,
    Revisions,
    None,               \* no repository, or no revision, named
    MaximumTurns,
    MaximumEntities     \* 20 in the code

VARIABLE session        \* session -> its turns, active entities and scope

Roles == {"user", "assistant"}
EmptySession == [turns |-> <<>>, active |-> <<>>, repository |-> None, revision |-> None]

(* Python's  given or current.                                             *)
Or(given, current) == IF given # None THEN given ELSE current

(* The last n elements of a sequence.                                      *)
Latest(seq, n) ==
    SubSeq(seq, IF Len(seq) > n THEN Len(seq) - n + 1 ELSE 1, Len(seq))

(* The names of both lists, each once, the most recently used last.        *)
MoveToEnd(active, names) ==
    LET others == {i \in DOMAIN active : \A j \in DOMAIN names : names[j] # active[i]}
        last == {i \in DOMAIN names : \A j \in i + 1 .. Len(names) : names[j] # names[i]}
    IN  Subsequence(active, others) \o Subsequence(names, last)

(* Mutant: the repository a session has once is never replaced.            *)
AppendedToFirstRepository(value, turn, names, repository, revision) ==
    [turns |-> Latest(Append(value.turns, turn), MaximumTurns),
     active |-> Latest(MoveToEnd(value.active, names), MaximumEntities),
     repository |-> Or(value.repository, repository),
     revision |-> Or(revision, value.revision)]

Appended(value, turn, names, repository, revision) ==
    [turns |-> Latest(Append(value.turns, turn), MaximumTurns),
     active |-> Latest(MoveToEnd(value.active, names), MaximumEntities),
     repository |-> Or(repository, value.repository),
     revision |-> Or(revision, value.revision)]

Init == session = [s \in Sessions |-> EmptySession]

AppendTurn(s, turn, names, repository, revision) ==
    session' = [session EXCEPT ![s] = Appended(@, turn, names, repository, revision)]

(* Redis drops a session nobody touched for its TTL.                       *)
Expire(s) == session' = [session EXCEPT ![s] = EmptySession]

(* What the turn leaves of the turns says first whether it was appended at *)
(* all, before TLC looks for what it named.                                *)
Next == \E s \in Sessions :
            \/ \E t \in Turns, role \in Roles :
                  LET turn == [role |-> role, by |-> t]
                  IN  /\ session'[s].turns = Latest(Append(session[s].turns, turn), MaximumTurns)
                      /\ \E names \in NameLists, repository \in Repositories \cup {None},
                            revision \in Revisions \cup {None} :
                            AppendTurn(s, turn, names, repository, revision)
            \/ Expire(s)

Spec == Init /\ [][Next]_session
===============================================================================
