----------------------------- MODULE McpSessions -----------------------------
(***************************************************************************)
(* The MCP servers and the sessions opened with them, as McpState of       *)
(* crates/clank-core/src/mcp/state.rs keeps them.  The servers' tools and  *)
(* their part in the command surface are in GreaseStore.                   *)
(***************************************************************************)
EXTENDS Integers, Sequences

CONSTANTS Servers,      \* server names
          Urls,         \* endpoints they are configured with
          MaxSessions,  \* MAX_MCP_SESSIONS
          None

(* A session id as the server at an endpoint issues it.                    *)
Sid == [at : Urls, n : Nat]

Entry == [url : Urls, installed : BOOLEAN]

McpSession == [id : Nat, server : Servers, sid : Sid \cup {None}]

ASSUME SessionsAssumption ==
    /\ MaxSessions \in Nat \ {0}
    /\ None \notin Entry \cup Sid

VARIABLES servers,      \* what is known of a server: its endpoint, installed or not
          sessions,     \* open sessions, the oldest first
          next_session  \* the number of the last local id given out

mcp == <<servers, sessions, next_session>>

(* Vec::retain: the entries of a table at the places kept, in their order. *)
Retained(q, keep) ==
    LET upTo[n \in 0..Len(q)] ==
            IF n = 0 THEN <<>>
            ELSE IF n \in keep THEN Append(upTo[n - 1], q[n]) ELSE upTo[n - 1]
    IN  upTo[Len(q)]

(* McpState::remove forgets the server's sessions with it.                 *)
Without(q, s) == Retained(q, {i \in DOMAIN q : q[i].server # s})

RemoveServer(s) ==
    /\ servers' = [servers EXCEPT ![s] = None]
    /\ sessions' = Without(sessions, s)
    /\ UNCHANGED next_session

(* Variants of SetServer: sessions outlive the entry they were opened      *)
(* with; the first entry of a name stays.                                  *)
SetServerKeepingSessions(s, entry) ==
    /\ servers' = [servers EXCEPT ![s] = entry]
    /\ UNCHANGED <<sessions, next_session>>

SetServerOnce(s, entry) ==
    /\ servers' = [servers EXCEPT ![s] = IF servers[s] = None THEN entry ELSE servers[s]]
    /\ sessions' = Without(sessions, s)
    /\ UNCHANGED next_session

(* set_installed and set_failed: remove, then push.                        *)
SetServer(s, entry) ==
    /\ servers' = [servers EXCEPT ![s] = entry]
    /\ sessions' = Without(sessions, s)
    /\ UNCHANGED next_session

(* The table without its oldest sessions, so that one more fits.           *)
Room(q) == IF Len(q) < MaxSessions THEN q
           ELSE SubSeq(q, Len(q) - MaxSessions + 2, Len(q))

(* Variant of OpenSession: the id is the place in the table.               *)
OpenSessionAtPlace(s, sid) ==
    /\ next_session' = Len(Room(sessions)) + 1
    /\ sessions' = Append(Room(sessions), [id |-> next_session', server |-> s, sid |-> sid])
    /\ UNCHANGED servers

(* open_session: the oldest make room, the counter goes on.                *)
OpenSession(s, sid) ==
    /\ next_session' = next_session + 1
    /\ sessions' = Append(Room(sessions), [id |-> next_session', server |-> s, sid |-> sid])
    /\ UNCHANGED servers

(* close_session                                                           *)
Dropped(q, id) == Retained(q, {i \in DOMAIN q : q[i].id # id})

CloseSession(id) ==
    /\ sessions' = Dropped(sessions, id)
    /\ UNCHANGED <<servers, next_session>>

OpenIds(q) == {q[i].id : i \in DOMAIN q}
SessionOf(q, id) == q[CHOOSE i \in DOMAIN q : q[i].id = id]

(* session_for: the first one open with the server; a tool call without one,*)
(* or with one to which the server gave no id, is stateless.               *)
ImplicitSid(q, s) ==
    LET of == {i \in DOMAIN q : q[i].server = s}
    IN  IF of = {} THEN None
        ELSE q[CHOOSE i \in of : \A j \in of : i =< j].sid

-----------------------------------------------------------------------------
(* The table stays within its bound, its ids are distinct and in order,    *)
(* none is ahead of the counter, and each session is with a server that is *)
(* known: so an id that was given out is never given out again.            *)
SessionTable ==
    /\ Len(sessions) =< MaxSessions
    /\ \A i, j \in DOMAIN sessions : i < j => sessions[i].id < sessions[j].id
    /\ \A i \in DOMAIN sessions : /\ sessions[i].id =< next_session
                                  /\ servers[sessions[i].server] # None
=============================================================================
