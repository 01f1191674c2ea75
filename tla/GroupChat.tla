----------------------------- MODULE GroupChat ------------------------------
(***************************************************************************)
(* One group, its members, and the chat: sockets that enter the group's    *)
(* room after a look at the membership, receive its messages, and have a   *)
(* session entry per user in Redis. HTTP requests and socket events run    *)
(* concurrently; the session manager's commands keep their order on its    *)
(* connection.                                                             *)
(***************************************************************************)
EXTENDS Integers, Sequences

CONSTANTS
  People,      \* authenticated users
  Creators,    \* bound: those of them who may create the group
  MaxSockets,  \* bound: sockets
  MaxActs,     \* bound: requests on the group
  MaxRestarts  \* bound: restarts of the process

NoOne == "none"
NoSocketId == 0
Sockets == 1..MaxSockets   \* in the order they are opened
Acts == 1..MaxActs   \* in the order they begin; also the ids of GroupMember rows
Earlier == MaxActs + 1
Ids == 0..Earlier

ASSUME ChatAssumption ==
  /\ NoOne \notin People /\ Creators \subseteq People
  /\ MaxSockets \in Nat /\ MaxActs \in Nat /\ MaxRestarts \in Nat

VARIABLES
  creator,    \* of the group, NoOne before it exists
  member,     \* the GroupMember row of each user: its id, and role; id 0: none
  act,        \* the requests
  socket,     \* the sockets; as: the id of the row seen by handleJoinGroup
  commands,   \* Redis commands on their way
  entry,      \* socket:<user> in Redis, or NoSocketId
  heard,      \* history: users that some message reached, and the row their socket had seen
  ended,      \* history: ids of rows that were deleted
  doubled,    \* history: users who had two sockets open, or an entry that expired or
              \* outlived the process
  restarts    \* restarts so far

groupVars  == <<creator, member, act, heard, ended>>
socketVars == <<socket, commands, entry, doubled>>
chatVars   == <<groupVars, socketVars, restarts>>

NoMember == [id |-> 0, role |-> "none"]
NoAct    == [pc |-> "none", of |-> NoOne, id |-> 0]
NoSocket == [pc |-> "new", user |-> NoOne, as |-> 0]
Closed   == [NoSocket EXCEPT !.pc = "closed"]

\* The group may be there already, with its creator in it.
ChatInit ==
  /\ creator \in Creators \cup {NoOne}
  /\ member = [u \in People |-> IF u = creator THEN [id |-> Earlier, role |-> "ADMIN"] ELSE NoMember]
  /\ act = [a \in Acts |-> NoAct]
  /\ socket = [s \in Sockets |-> NoSocket]
  /\ commands = <<>>
  /\ entry = [u \in People |-> NoSocketId]
  /\ heard = {} /\ ended = {} /\ doubled = {}
  /\ restarts = 0

----------------------------------------------------------------------------
(* Requests on the group                                                   *)

Finish(a) == act' = [act EXCEPT ![a] = [NoAct EXCEPT !.pc = "done"]]

\* Request a, about u, begins and goes on at pc; id is that of the row it has found.
Take(a, u, id, pc) ==
  /\ act[a].pc = "none" /\ \A b \in Acts : b < a => act[b].pc # "none"
  /\ act' = [act EXCEPT ![a] = [pc |-> pc, of |-> u, id |-> id]]

\* The mutant makes everyone an ADMIN.
RoleOfAll(u) == "ADMIN"
RoleOf(u) == IF u = creator THEN "ADMIN" ELSE "MEMBER"

\* The group is created first, and is there to be joined before its creator is in it.
CreateGroup(a, u) ==
  /\ creator = NoOne /\ u \in Creators
  /\ creator' = u
  /\ Take(a, u, 0, "insert")
  /\ UNCHANGED <<member, heard, ended, socketVars, restarts>>

JoinGroup(a, u) ==
  /\ creator # NoOne /\ member[u].id = 0
  /\ Take(a, u, 0, "insert")
  /\ UNCHANGED <<creator, member, heard, ended, socketVars, restarts>>

\* The unique index refuses a second row.
InsertMember(a) ==
  LET u == act[a].of IN
  /\ act[a].pc = "insert"
  /\ member' = IF member[u].id = 0 THEN [member EXCEPT ![u] = [id |-> a, role |-> RoleOf(u)]]
               ELSE member
  /\ Finish(a)
  /\ UNCHANGED <<creator, heard, ended, socketVars, restarts>>

LeaveGroup(a, u) ==
  /\ member[u].id # 0
  /\ Take(a, u, member[u].id, "delete")
  /\ UNCHANGED <<creator, member, heard, ended, socketVars, restarts>>

\* Only by an ADMIN, and never of one.
RemoveMember(a, u, v) ==
  /\ member[u].role = "ADMIN" /\ member[v].role = "MEMBER"
  /\ Take(a, v, member[v].id, "delete")
  /\ UNCHANGED <<creator, member, heard, ended, socketVars, restarts>>

\* By the id that was found: it fails on a row that is gone, although the user may
\* have joined again. Sockets stay in the room.
DeleteMember(a) ==
  LET u == act[a].of IN
  /\ act[a].pc = "delete"
  /\ IF member[u].id = act[a].id
     THEN member' = [member EXCEPT ![u] = NoMember] /\ ended' = ended \cup {act[a].id}
     ELSE UNCHANGED <<member, ended>>
  /\ Finish(a)
  /\ UNCHANGED <<creator, heard, socketVars, restarts>>

\* sendMessageToGroup, by anybody: the message is stored, its attachments are
\* uploaded, and the event goes to the room as it is by then.
SendMessage(a) ==
  /\ creator # NoOne
  /\ Take(a, NoOne, 0, "emit")
  /\ UNCHANGED <<creator, member, heard, ended, socketVars, restarts>>

Room == {s \in Sockets : socket[s].pc = "room"}
MessageCreated(a) ==
  /\ act[a].pc = "emit"
  /\ heard' = heard \cup {[user |-> socket[s].user, as |-> socket[s].as] : s \in Room}
  /\ Finish(a)
  /\ UNCHANGED <<creator, member, ended, socketVars, restarts>>

----------------------------------------------------------------------------
(* Sockets                                                                 *)

Connected(s) == socket[s].pc \in {"open", "enter", "room"}
SocketsOf(u) == {s \in Sockets : Connected(s) /\ socket[s].user = u}

HandleConnection(s, u) ==
  /\ socket[s].pc = "new" /\ \A t \in Sockets : t < s => socket[t].pc # "new"
  /\ socket' = [socket EXCEPT ![s].pc = "open", ![s].user = u]
  /\ commands' = Append(commands, [user |-> u, to |-> s])
  /\ doubled' = IF SocketsOf(u) # {} THEN doubled \cup {u} ELSE doubled
  /\ UNCHANGED <<groupVars, entry, restarts>>

\* The entry of the user is deleted, whichever socket it is of. The mutant keeps it.
RemoveUserSocketNot(u) == commands
RemoveUserSocket(u) == Append(commands, [user |-> u, to |-> NoSocketId])

HandleDisconnect(s) ==
  /\ Connected(s)
  /\ socket' = [socket EXCEPT ![s] = Closed]
  /\ commands' = RemoveUserSocket(socket[s].user)
  /\ UNCHANGED <<groupVars, entry, doubled, restarts>>

UnderCommand(u) == \E i \in DOMAIN commands : commands[i].user = u

RedisCommand ==
  LET c == Head(commands) IN
  /\ commands # <<>>
  /\ entry' = [entry EXCEPT ![c.user] = c.to]
  /\ commands' = Tail(commands)
  /\ UNCHANGED <<groupVars, socket, doubled, restarts>>

\* An entry is set once, and expires.
EntryExpires(u) ==
  /\ entry[u] # NoSocketId
  /\ entry' = [entry EXCEPT ![u] = NoSocketId]
  /\ doubled' = doubled \cup {u}
  /\ UNCHANGED <<groupVars, socket, commands, restarts>>

\* handleJoinGroup looks the membership up. The mutant lets everybody in.
IsGroupMemberAny(u) == creator # NoOne
IsGroupMember(u) == member[u].id # 0

HandleJoinGroup(s) ==
  LET u == socket[s].user IN
  /\ socket[s].pc = "open"
  /\ IsGroupMember(u)
  /\ socket' = [socket EXCEPT ![s].pc = "enter", ![s].as = member[u].id]
  /\ UNCHANGED <<groupVars, commands, entry, doubled, restarts>>

EnterRoom(s) ==
  /\ socket[s].pc = "enter"
  /\ socket' = [socket EXCEPT ![s].pc = "room"]
  /\ UNCHANGED <<groupVars, commands, entry, doubled, restarts>>

\* The process dies: sockets and requests are gone, entries stay until they expire.
\* A request that fails by itself stops half-way in the same manner.
Restart ==
  /\ restarts < MaxRestarts
  /\ restarts' = restarts + 1
  /\ act' = [a \in Acts |-> IF act[a].pc = "none" THEN act[a] ELSE [NoAct EXCEPT !.pc = "done"]]
  /\ socket' = [s \in Sockets |-> IF Connected(s) THEN Closed ELSE socket[s]]
  /\ commands' = <<>>
  /\ doubled' = doubled \cup {u \in People : SocketsOf(u) # {} \/ UnderCommand(u)}
  /\ UNCHANGED <<creator, member, heard, ended, entry>>

ChatNext ==
  \/ \E a \in Acts :
       \/ \E u \in People :
            \/ CreateGroup(a, u) \/ JoinGroup(a, u) \/ LeaveGroup(a, u)
            \/ \E v \in People : RemoveMember(a, u, v)
       \/ InsertMember(a) \/ DeleteMember(a)
       \/ SendMessage(a) \/ MessageCreated(a)
  \/ \E s \in Sockets :
       \/ \E u \in People : HandleConnection(s, u)
       \/ HandleDisconnect(s) \/ HandleJoinGroup(s) \/ EnterRoom(s)
  \/ \E u \in People : EntryExpires(u)
  \/ RedisCommand \/ Restart

ChatSpec == ChatInit /\ [][ChatNext]_chatVars

----------------------------------------------------------------------------
(* Properties                                                              *)

\* Types, and that only the creator is an ADMIN.
ChatTypeOK ==
  /\ creator \in People \cup {NoOne}
  /\ member \in [People -> [id : Ids, role : {"none", "MEMBER", "ADMIN"}]]
  /\ act \in [Acts -> [pc : {"none", "insert", "delete", "emit", "done"},
                      of : People \cup {NoOne}, id : Ids]]
  /\ socket \in [Sockets -> [pc : {"new", "open", "enter", "room", "closed"},
                            user : People \cup {NoOne}, as : Ids]]
  /\ commands \in Seq([user : People, to : Sockets \cup {NoSocketId}])
  /\ entry \in [People -> Sockets \cup {NoSocketId}]
  /\ heard \subseteq [user : People, as : Ids] /\ ended \subseteq Ids /\ doubled \subseteq People
  /\ restarts \in Nat
  /\ \A u \in People : member[u].role = "ADMIN" => u = creator

\* However requests and socket events interleave, a message reaches only sockets
\* of members, or of users who were members when they asked for the room and whose
\* membership has ended since: nobody takes their sockets out of the room.
HeardByMembers ==
  \A h \in heard : h.as # 0 /\ (h.as \in ended \/ h.as = member[h.user].id)

\* Once Redis has caught up, the session entry of a user who never had two sockets
\* open is that of the open one, or none, unless it expired under it or the process
\* was restarted.
SessionOfOpenSocket ==
  \A u \in People :
    u \notin doubled /\ ~UnderCommand(u) =>
      \/ SocketsOf(u) = {} /\ entry[u] = NoSocketId
      \/ SocketsOf(u) = {entry[u]}
=============================================================================
