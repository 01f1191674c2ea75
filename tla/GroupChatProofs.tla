--------------------------- MODULE GroupChatProofs ---------------------------
(***************************************************************************)
(* Theorems about GroupChat, for any people, sockets, requests on the      *)
(* group and restarts: its types, who hears a message, and the session     *)
(* entry of a user who never had two sockets.                              *)
(***************************************************************************)
EXTENDS GroupChat, SequenceTheorems, TLAPS

MemberRows == [id : Ids, role : {"none", "MEMBER", "ADMIN"}]
ActRows    == [pc : {"none", "insert", "delete", "emit", "done"}, of : People \cup {NoOne}, id : Ids]
SocketRows == [pc : {"new", "open", "enter", "room", "closed"}, user : People \cup {NoOne}, as : Ids]
Commands   == [user : People, to : Sockets \cup {NoSocketId}]

(* A request to insert or delete is about a user, a connected socket is    *)
(* one's, and one past handleJoinGroup has seen a row that is still the    *)
(* user's or has ended.                                                    *)
OfUser(a)   == act[a].pc \in {"insert", "delete"} => act[a].of \in People
OfMember(s) ==
  /\ Connected(s) => socket[s].user \in People
  /\ socket[s].pc \in {"enter", "room"} =>
       /\ socket[s].as # 0
       /\ socket[s].as \in ended \/ socket[s].as = member[socket[s].user].id

ChatInv ==
  /\ ChatTypeOK
  /\ \A a \in Acts : OfUser(a)
  /\ \A s \in Sockets : OfMember(s)
  /\ HeardByMembers

LEMMA IdsFacts == 0 \in Ids /\ Earlier \in Ids /\ Acts \subseteq Ids
BY ChatAssumption DEF Ids, Earlier, Acts

LEMMA ChatInitially == ChatInit => ChatInv
<1> SUFFICES ASSUME ChatInit PROVE ChatInv  OBVIOUS
<1> USE DEF ChatInit
<1>1. \A u \in People : member[u] \in MemberRows /\ (member[u].role = "ADMIN" => u = creator)
  BY IdsFacts DEF MemberRows, NoMember
<1>2. member \in [People -> MemberRows]
  BY <1>1
<1>3. act \in [Acts -> ActRows] /\ socket \in [Sockets -> SocketRows]
  BY IdsFacts DEF ActRows, SocketRows, NoAct, NoSocket
<1>4. creator \in People \cup {NoOne} /\ restarts \in Nat
  BY ChatAssumption
<1>5. commands \in Seq(Commands) /\ entry \in [People -> Sockets \cup {NoSocketId}]
  OBVIOUS
<1>6. ChatTypeOK
  BY <1>1, <1>2, <1>3, <1>4, <1>5 DEF ChatTypeOK, MemberRows, ActRows, SocketRows, Commands
<1>7. (\A a \in Acts : OfUser(a)) /\ (\A s \in Sockets : OfMember(s)) /\ HeardByMembers
  BY DEF OfUser, OfMember, Connected, HeardByMembers, NoAct, NoSocket
<1> QED
  BY <1>6, <1>7 DEF ChatInv

(* Request a begins: its row is well formed if u and id are.               *)
LEMMA TakeOK ==
  ASSUME NEW a \in Acts, NEW u \in People \cup {NoOne}, NEW id \in Ids,
         NEW pc \in {"insert", "delete", "emit"}, pc # "emit" => u \in People,
         act \in [Acts -> ActRows], \A b \in Acts : OfUser(b), Take(a, u, id, pc)
  PROVE  act' \in [Acts -> ActRows] /\ \A b \in Acts : OfUser(b)'
<1> DEFINE q == [pc |-> pc, of |-> u, id |-> id]
<1>1. q \in ActRows /\ (q.pc \in {"insert", "delete"} => q.of \in People)
  BY DEF ActRows
<1>2. act' = [act EXCEPT ![a] = q]
  BY DEF Take
<1> HIDE DEF q
<1> QED
  BY <1>1, <1>2 DEF OfUser

LEMMA FinishOK ==
  ASSUME NEW a \in Acts, act \in [Acts -> ActRows], \A b \in Acts : OfUser(b), Finish(a)
  PROVE  act' \in [Acts -> ActRows] /\ \A b \in Acts : OfUser(b)'
<1> DEFINE q == [NoAct EXCEPT !.pc = "done"]
<1>1. q \in ActRows /\ q.pc = "done"
  BY IdsFacts DEF ActRows, NoAct
<1>2. act' = [act EXCEPT ![a] = q]
  BY DEF Finish
<1> HIDE DEF q
<1> QED
  BY <1>1, <1>2 DEF OfUser

(* A step that leaves rows, sockets and what was heard alone, and keeps    *)
(* requests and the rest well typed.                                       *)
LEMMA QuietStep ==
  ASSUME ChatInv, UNCHANGED <<member, socket, heard, ended>>,
         creator' \in People \cup {NoOne}, creator' = creator \/ creator = NoOne,
         act' \in [Acts -> ActRows], \A b \in Acts : OfUser(b)',
         commands' \in Seq(Commands), entry' \in [People -> Sockets \cup {NoSocketId}],
         doubled' \subseteq People, restarts' \in Nat
  PROVE  ChatInv'
<1>1. ChatTypeOK'
  BY ChatAssumption DEF ChatInv, ChatTypeOK, ActRows, Commands
<1>2. \A s \in Sockets : OfMember(s)'
  BY DEF ChatInv, OfMember, Connected
<1>3. HeardByMembers'
  BY DEF ChatInv, HeardByMembers
<1> QED
  BY <1>1, <1>2, <1>3 DEF ChatInv
LEMMA RequestStep ==
  ASSUME ChatInv, NEW a \in Acts, NEW u \in People,
         \/ CreateGroup(a, u) \/ JoinGroup(a, u) \/ LeaveGroup(a, u)
         \/ \E v \in People : RemoveMember(a, u, v)
  PROVE  ChatInv'
<1> USE DEF ChatInv
<1>1. act \in [Acts -> ActRows] /\ 0 \in Ids /\ \A v \in People : member[v].id \in Ids
  BY IdsFacts DEF ChatTypeOK, ActRows
<1>2. act' \in [Acts -> ActRows] /\ \A b \in Acts : OfUser(b)'
  <2>1. CASE CreateGroup(a, u) \/ JoinGroup(a, u)
    BY <1>1, <2>1, TakeOK DEF CreateGroup, JoinGroup
  <2>2. CASE LeaveGroup(a, u)
    BY <1>1, <2>2, TakeOK DEF LeaveGroup
  <2>3. CASE \E v \in People : RemoveMember(a, u, v)
    BY <1>1, <2>3, TakeOK DEF RemoveMember
  <2> QED
    BY <2>1, <2>2, <2>3
<1>3. /\ UNCHANGED <<member, socket, heard, ended, commands, entry, doubled, restarts>>
      /\ creator' \in People \cup {NoOne}
      /\ creator' = creator \/ creator = NoOne
  BY DEF CreateGroup, JoinGroup, LeaveGroup, RemoveMember, socketVars, ChatTypeOK
<1>4. /\ commands \in Seq(Commands) /\ entry \in [People -> Sockets \cup {NoSocketId}]
      /\ doubled \subseteq People /\ restarts \in Nat
  BY DEF ChatTypeOK, Commands
<1> QED
  BY <1>2, <1>3, <1>4, QuietStep

LEMMA SendStep ==
  ASSUME ChatInv, NEW a \in Acts, SendMessage(a)
  PROVE  ChatInv'
<1> USE DEF ChatInv
<1>1. act' \in [Acts -> ActRows] /\ \A b \in Acts : OfUser(b)'
  BY IdsFacts, TakeOK DEF SendMessage, ChatTypeOK, ActRows
<1>2. UNCHANGED <<creator, member, socket, heard, ended, commands, entry, doubled, restarts>>
  BY DEF SendMessage, socketVars
<1>3. /\ commands \in Seq(Commands) /\ entry \in [People -> Sockets \cup {NoSocketId}]
      /\ doubled \subseteq People /\ restarts \in Nat /\ creator \in People \cup {NoOne}
  BY DEF ChatTypeOK, Commands
<1> QED
  BY <1>1, <1>2, <1>3, QuietStep

(* A row is inserted where there is none: who had seen one of the user had *)
(* seen one that ended.                                                    *)
LEMMA InsertStep ==
  ASSUME ChatInv, NEW a \in Acts, InsertMember(a)
  PROVE  ChatInv'
<1> USE DEF ChatInv
<1> DEFINE u == act[a].of
           row == [id |-> a, role |-> RoleOf(u)]
<1>1. u \in People /\ a \in Ids
  BY IdsFacts DEF InsertMember, OfUser
<1>2. row \in MemberRows /\ (row.role = "ADMIN" => u = creator)
  BY <1>1 DEF MemberRows, RoleOf
<1>3. act' \in [Acts -> ActRows] /\ \A b \in Acts : OfUser(b)'
  BY FinishOK DEF InsertMember, ChatTypeOK, ActRows
<1>4. /\ member' = IF member[u].id = 0 THEN [member EXCEPT ![u] = row] ELSE member
      /\ UNCHANGED <<creator, socket, heard, ended, commands, entry, doubled, restarts>>
  BY DEF InsertMember, socketVars
<1> HIDE DEF u, row
<1>5. member' \in [People -> MemberRows] /\ \A v \in People : member'[v].role = "ADMIN" => v = creator
  BY <1>1, <1>2, <1>4 DEF ChatTypeOK, MemberRows
<1>6. ChatTypeOK'
  BY <1>3, <1>4, <1>5 DEF ChatTypeOK, MemberRows, ActRows
<1>7. \A v \in People, i \in Ids :
        i # 0 /\ (i \in ended \/ i = member[v].id) => i \in ended \/ i = member'[v].id
  BY <1>1, <1>4 DEF ChatTypeOK
<1>8. \A s \in Sockets : OfMember(s)'
  <2> SUFFICES ASSUME NEW s \in Sockets PROVE OfMember(s)'  OBVIOUS
  <2>1. socket[s].as \in Ids /\ OfMember(s)
    BY DEF ChatTypeOK
  <2> QED
    BY <1>4, <1>7, <2>1 DEF OfMember, Connected
<1>9. HeardByMembers'
  BY <1>4, <1>7 DEF HeardByMembers, ChatTypeOK
<1> QED
  BY <1>3, <1>6, <1>8, <1>9

(* A row that is deleted has ended, for those who saw it.                  *)
LEMMA DeleteStep ==
  ASSUME ChatInv, NEW a \in Acts, DeleteMember(a)
  PROVE  ChatInv'
<1> USE DEF ChatInv
<1> DEFINE u == act[a].of
<1>1. u \in People /\ act[a].id \in Ids /\ 0 \in Ids
  BY IdsFacts DEF DeleteMember, OfUser, ChatTypeOK
<1>2. act' \in [Acts -> ActRows] /\ \A b \in Acts : OfUser(b)'
  BY FinishOK DEF DeleteMember, ChatTypeOK, ActRows
<1>3. /\ UNCHANGED <<creator, socket, heard, commands, entry, doubled, restarts>>
      /\ \/ UNCHANGED <<member, ended>>
         \/ /\ member' = [member EXCEPT ![u] = NoMember]
            /\ ended' = ended \cup {member[u].id}
  BY DEF DeleteMember, socketVars
<1> HIDE DEF u
<1>4. /\ member' \in [People -> MemberRows] /\ ended' \subseteq Ids
      /\ \A v \in People : member'[v].role = "ADMIN" => v = creator
  <2>1. NoMember \in MemberRows /\ NoMember.role = "none"
    BY <1>1 DEF MemberRows, NoMember
  <2> QED
    BY <1>1, <1>3, <2>1 DEF ChatTypeOK, MemberRows
<1>5. ChatTypeOK'
  BY <1>2, <1>3, <1>4 DEF ChatTypeOK, MemberRows, ActRows
<1>6. \A v \in People, i \in Ids :
        i \in ended \/ i = member[v].id => i \in ended' \/ i = member'[v].id
  BY <1>1, <1>3 DEF ChatTypeOK
<1>7. \A s \in Sockets : OfMember(s)'
  <2> SUFFICES ASSUME NEW s \in Sockets PROVE OfMember(s)'  OBVIOUS
  <2>1. socket[s].as \in Ids /\ OfMember(s)
    BY DEF ChatTypeOK
  <2> QED
    BY <1>3, <1>6, <2>1 DEF OfMember, Connected
<1>8. HeardByMembers'
  BY <1>3, <1>6 DEF HeardByMembers, ChatTypeOK
<1> QED
  BY <1>2, <1>5, <1>7, <1>8

(* A message reaches the sockets of the room, which have seen a row.       *)
LEMMA MessageStep ==
  ASSUME ChatInv, NEW a \in Acts, MessageCreated(a)
  PROVE  ChatInv'
<1> USE DEF ChatInv
<1>1. act' \in [Acts -> ActRows] /\ \A b \in Acts : OfUser(b)'
  BY FinishOK DEF MessageCreated, ChatTypeOK, ActRows
<1>2. /\ UNCHANGED <<creator, member, ended, socketVars, restarts>>
      /\ heard' = heard \cup {[user |-> socket[s].user, as |-> socket[s].as] : s \in Room}
  BY DEF MessageCreated
<1>3. \A s \in Room :
        /\ socket[s].user \in People /\ socket[s].as \in Ids /\ socket[s].as # 0
        /\ socket[s].as \in ended \/ socket[s].as = member[socket[s].user].id
  BY DEF Room, OfMember, Connected, ChatTypeOK
<1>4. heard' \subseteq [user : People, as : Ids]
  BY <1>2, <1>3 DEF ChatTypeOK
<1>5. ChatTypeOK'
  BY <1>1, <1>2, <1>4 DEF ChatTypeOK, ActRows, socketVars
<1>6. HeardByMembers'
  BY <1>2, <1>3 DEF HeardByMembers
<1>7. \A s \in Sockets : OfMember(s)'
  BY <1>2 DEF OfMember, Connected, socketVars
<1> QED
  BY <1>1, <1>5, <1>6, <1>7

(* A step of one socket, which becomes q.                                  *)
LEMMA SocketStep ==
  ASSUME ChatInv, NEW s \in Sockets, NEW q \in SocketRows,
         socket' = [socket EXCEPT ![s] = q],
         q.pc \in {"open", "enter", "room"} => q.user \in People,
         q.pc \in {"enter", "room"} =>
           q.as # 0 /\ (q.as \in ended \/ q.as = member[q.user].id),
         commands' \in Seq(Commands), doubled' \subseteq People,
         UNCHANGED <<groupVars, entry, restarts>>
  PROVE  ChatInv'
<1> USE DEF ChatInv
<1>1. ChatTypeOK'
  BY DEF ChatTypeOK, groupVars, SocketRows, Commands
<1>2. \A t \in Sockets : OfMember(t)'
  BY DEF OfMember, Connected, groupVars, ChatTypeOK
<1>3. (\A a \in Acts : OfUser(a)') /\ HeardByMembers'
  BY DEF OfUser, HeardByMembers, groupVars
<1> QED
  BY <1>1, <1>2, <1>3
LEMMA EventStep ==
  ASSUME ChatInv, NEW s \in Sockets,
         \/ \E u \in People : HandleConnection(s, u)
         \/ HandleDisconnect(s) \/ HandleJoinGroup(s) \/ EnterRoom(s)
  PROVE  ChatInv'
<1> USE DEF ChatInv
<1>1. /\ socket[s] \in SocketRows /\ 0 \in Ids /\ 0 \in Sockets \cup {NoSocketId}
      /\ commands \in Seq(Commands) /\ doubled \subseteq People /\ OfMember(s)
  BY IdsFacts DEF ChatTypeOK, SocketRows, Commands, NoSocketId
<1>2. CASE \E u \in People : HandleConnection(s, u)
  <2>1. PICK u \in People : HandleConnection(s, u)
    BY <1>2
  <2> DEFINE q == [socket[s] EXCEPT !.pc = "open", !.user = u]
  <2>2. /\ q \in SocketRows /\ q.pc = "open" /\ q.user = u
        /\ socket' = [socket EXCEPT ![s] = q]
    BY <1>1, <2>1 DEF HandleConnection, SocketRows
  <2>3. commands' \in Seq(Commands) /\ doubled' \subseteq People
    <3>1. [user |-> u, to |-> s] \in Commands
      BY DEF Commands
    <3> QED
      BY <1>1, <2>1, <3>1 DEF HandleConnection
  <2> HIDE DEF q
  <2> QED
    BY <2>1, <2>2, <2>3, SocketStep DEF HandleConnection
<1>3. CASE HandleDisconnect(s)
  <2>1. Closed \in SocketRows /\ Closed.pc = "closed"
    BY <1>1 DEF Closed, NoSocket, SocketRows
  <2>2. commands' \in Seq(Commands)
    <3>1. [user |-> socket[s].user, to |-> NoSocketId] \in Commands
      BY <1>1, <1>3 DEF HandleDisconnect, OfMember, Commands
    <3> QED
      BY <1>1, <1>3, <3>1 DEF HandleDisconnect, RemoveUserSocket
  <2>3. socket' = [socket EXCEPT ![s] = Closed] /\ UNCHANGED <<groupVars, entry, doubled, restarts>>
    BY <1>3 DEF HandleDisconnect
  <2> QED
    BY <1>1, <2>1, <2>2, <2>3, SocketStep
<1>4. CASE HandleJoinGroup(s)
  <2> DEFINE id == member[socket[s].user].id
             q == [socket[s] EXCEPT !.pc = "enter", !.as = id]
  <2>1. socket[s].user \in People /\ id \in Ids /\ id # 0
    BY <1>1, <1>4 DEF HandleJoinGroup, OfMember, Connected, IsGroupMember, ChatTypeOK
  <2>2. /\ q \in SocketRows /\ q.pc = "enter" /\ q.user = socket[s].user /\ q.as = id
        /\ socket' = [socket EXCEPT ![s] = q]
    BY <1>1, <1>4, <2>1 DEF HandleJoinGroup, SocketRows
  <2> HIDE DEF q
  <2> QED
    BY <1>1, <1>4, <2>1, <2>2, SocketStep DEF HandleJoinGroup
<1>5. CASE EnterRoom(s)
  <2> DEFINE q == [socket[s] EXCEPT !.pc = "room"]
  <2>1. /\ q \in SocketRows /\ q.pc = "room" /\ q.user = socket[s].user /\ q.as = socket[s].as
        /\ socket' = [socket EXCEPT ![s] = q] /\ socket[s].pc = "enter"
    BY <1>1, <1>5 DEF EnterRoom, SocketRows
  <2> HIDE DEF q
  <2> QED
    BY <1>1, <1>5, <2>1, SocketStep DEF EnterRoom, OfMember, Connected
<1> QED
  BY <1>2, <1>3, <1>4, <1>5

LEMMA BackgroundStep ==
  ASSUME ChatInv, RedisCommand \/ (\E u \in People : EntryExpires(u)) \/ Restart
  PROVE  ChatInv'
<1> USE DEF ChatInv
<1>1. /\ commands \in Seq(Commands) /\ entry \in [People -> Sockets \cup {NoSocketId}]
      /\ doubled \subseteq People /\ restarts \in Nat /\ creator \in People \cup {NoOne}
      /\ act \in [Acts -> ActRows] /\ socket \in [Sockets -> SocketRows]
  BY DEF ChatTypeOK, Commands, ActRows, SocketRows
<1>2. CASE RedisCommand
  <2>1. Head(commands) \in Commands /\ commands' \in Seq(Commands)
    BY <1>1, <1>2 DEF RedisCommand
  <2>2. entry' \in [People -> Sockets \cup {NoSocketId}]
    BY <1>1, <1>2, <2>1 DEF RedisCommand, Commands
  <2>3. UNCHANGED <<member, act, socket, heard, ended, creator, doubled, restarts>>
    BY <1>2 DEF RedisCommand, groupVars
  <2>4. \A a \in Acts : OfUser(a)'
    BY <2>3 DEF OfUser
  <2> QED
    BY <1>1, <2>1, <2>2, <2>3, <2>4, QuietStep
<1>3. CASE \E u \in People : EntryExpires(u)
  <2>1. /\ entry' \in [People -> Sockets \cup {NoSocketId}] /\ doubled' \subseteq People
        /\ UNCHANGED <<member, act, socket, heard, ended, creator, commands, restarts>>
    BY <1>1, <1>3 DEF EntryExpires, groupVars
  <2>2. \A a \in Acts : OfUser(a)'
    BY <2>1 DEF OfUser
  <2> QED
    BY <1>1, <2>1, <2>2, QuietStep
<1>4. CASE Restart
  <2> DEFINE q == [NoAct EXCEPT !.pc = "done"]
  <2>1. q \in ActRows /\ q.pc = "done" /\ Closed \in SocketRows /\ Closed.pc = "closed"
    BY IdsFacts DEF ActRows, SocketRows, NoAct, Closed, NoSocket
  <2>2. /\ act' = [a \in Acts |-> IF act[a].pc = "none" THEN act[a] ELSE q]
        /\ socket' = [s \in Sockets |-> IF Connected(s) THEN Closed ELSE socket[s]]
        /\ commands' = <<>> /\ restarts' = restarts + 1
        /\ doubled' \subseteq People
        /\ UNCHANGED <<creator, member, heard, ended, entry>>
    BY <1>1, <1>4 DEF Restart
  <2> HIDE DEF q
  <2>3. act' \in [Acts -> ActRows] /\ socket' \in [Sockets -> SocketRows] /\ commands' \in Seq(Commands)
    BY <1>1, <2>1, <2>2
  <2>4. ChatTypeOK'
    BY <1>1, <2>2, <2>3 DEF ChatTypeOK, ActRows, SocketRows, Commands
  <2>5. (\A a \in Acts : OfUser(a)') /\ HeardByMembers'
    BY <2>1, <2>2 DEF OfUser, HeardByMembers
  <2>6. \A s \in Sockets : OfMember(s)'
    BY <2>1, <2>2 DEF OfMember, Connected
  <2> QED
    BY <2>4, <2>5, <2>6
<1> QED
  BY <1>2, <1>3, <1>4

LEMMA ChatStep == ChatInv /\ [ChatNext]_chatVars => ChatInv'
<1> SUFFICES ASSUME ChatInv, [ChatNext]_chatVars PROVE ChatInv'  OBVIOUS
<1>1. CASE ChatNext
  <2>1. ASSUME NEW a \in Acts,
               \/ \E u \in People :
                    \/ CreateGroup(a, u) \/ JoinGroup(a, u) \/ LeaveGroup(a, u)
                    \/ \E v \in People : RemoveMember(a, u, v)
               \/ InsertMember(a) \/ DeleteMember(a) \/ SendMessage(a) \/ MessageCreated(a)
        PROVE  ChatInv'
    BY <2>1, RequestStep, InsertStep, DeleteStep, MessageStep, SendStep, Zenon
  <2>2. ASSUME NEW s \in Sockets,
               \/ \E u \in People : HandleConnection(s, u)
               \/ HandleDisconnect(s) \/ HandleJoinGroup(s) \/ EnterRoom(s)
        PROVE  ChatInv'
    BY <2>2, EventStep, Zenon
  <2> QED
    BY <1>1, <2>1, <2>2, BackgroundStep, Zenon DEF ChatNext
<1>2. CASE UNCHANGED chatVars
  <2>1. UNCHANGED <<member, act, socket, heard, ended, creator, commands, entry, doubled, restarts>>
    BY <1>2 DEF chatVars, groupVars, socketVars
  <2>2. \A a \in Acts : OfUser(a)'
    BY <2>1 DEF OfUser, ChatInv
  <2> QED
    BY <2>1, <2>2, QuietStep DEF ChatInv, ChatTypeOK, ActRows, Commands
<1> QED
  BY <1>1, <1>2

LEMMA ChatAlways == ChatSpec => []ChatInv
BY ChatInitially, ChatStep, PTL DEF ChatSpec

\* The rows of the group, the requests about it, the sockets and the entries in
\* Redis (group.service.ts, chat.gateway.ts, gateway-session.manager.ts) are well
\* typed, and nobody but the creator is an ADMIN.
THEOREM ChatTypeCorrect == ChatSpec => []ChatTypeOK
<1>1. ChatInv => ChatTypeOK
  BY DEF ChatInv
<1> QED
  BY <1>1, ChatAlways, PTL

\* However joins, removals and socket events interleave, a message reaches only
\* sockets that asked for the room as members: handleJoinGroup looks once, and
\* nobody takes them out.
THEOREM HeardByMembersAlways == ChatSpec => []HeardByMembers
<1>1. ChatInv => HeardByMembers
  BY DEF ChatInv
<1> QED
  BY <1>1, ChatAlways, PTL
(***************************************************************************)
(* The session entry: what it will be once the commands on their way are   *)
(* carried out.                                                            *)
(***************************************************************************)
WillBe(u, x) ==
  \/ ~UnderCommand(u) /\ entry[u] = x
  \/ \E i \in DOMAIN commands :
       /\ commands[i].user = u /\ commands[i].to = x
       /\ \A j \in DOMAIN commands : j > i => commands[j].user # u

(* A user with no socket will have no entry, one with a single socket will *)
(* have its.                                                               *)
Followed(u) ==
  \/ SocketsOf(u) = {} /\ WillBe(u, NoSocketId)
  \/ \E s \in Sockets : SocketsOf(u) = {s} /\ WillBe(u, s)

SessionInv == \A u \in People \ doubled : Followed(u)

LEMMA Appended ==
  ASSUME ChatTypeOK, NEW c \in Commands, commands' = Append(commands, c), UNCHANGED entry
  PROVE  /\ WillBe(c.user, c.to)'
         /\ \A u \in People, x \in Sockets \cup {NoSocketId} : u # c.user /\ WillBe(u, x) => WillBe(u, x)'
<1>1. commands \in Seq(Commands)
  BY DEF ChatTypeOK, Commands
<1> DEFINE n == Len(commands)
<1>2. /\ n \in Nat /\ DOMAIN commands = 1..n /\ DOMAIN commands' = 1..(n + 1)
      /\ \A i \in 1..n : commands'[i] = commands[i]
      /\ commands'[n + 1] = c
  BY <1>1
<1> HIDE DEF n
<1>3. WillBe(c.user, c.to)'
  BY <1>2 DEF WillBe
<1>4. ASSUME NEW u \in People, NEW x \in Sockets \cup {NoSocketId}, u # c.user, WillBe(u, x)
      PROVE  WillBe(u, x)'
  <2>1. CASE ~UnderCommand(u) /\ entry[u] = x
    BY <1>2, <1>4, <2>1 DEF WillBe, UnderCommand
  <2>2. CASE \E i \in DOMAIN commands :
               /\ commands[i].user = u /\ commands[i].to = x
               /\ \A j \in DOMAIN commands : j > i => commands[j].user # u
    <3>1. PICK i \in 1..n : /\ commands[i].user = u /\ commands[i].to = x
                            /\ \A j \in 1..n : j > i => commands[j].user # u
      BY <1>2, <2>2
    <3>2. i \in DOMAIN commands' /\ commands'[i].user = u /\ commands'[i].to = x
      BY <1>2, <3>1
    <3>3. \A j \in DOMAIN commands' : j > i => commands'[j].user # u
      BY <1>2, <1>4, <3>1
    <3> QED
      BY <3>2, <3>3 DEF WillBe
  <2> QED
    BY <1>4, <2>1, <2>2 DEF WillBe
<1> QED
  BY <1>3, <1>4

LEMMA CarriedOut ==
  ASSUME ChatTypeOK, RedisCommand
  PROVE  \A u \in People, x \in Sockets \cup {NoSocketId} : WillBe(u, x) => WillBe(u, x)'
<1> SUFFICES ASSUME NEW u \in People, NEW x \in Sockets \cup {NoSocketId}, WillBe(u, x)
             PROVE  WillBe(u, x)'
  OBVIOUS
<1>1. commands \in Seq(Commands) /\ commands # <<>>
  BY DEF ChatTypeOK, Commands, RedisCommand
<1> DEFINE n == Len(commands)
<1>2. /\ n \in Nat /\ n > 0 /\ DOMAIN commands = 1..n /\ DOMAIN commands' = 1..(n - 1)
      /\ \A i \in 1..(n - 1) : commands'[i] = commands[i + 1]
      /\ commands[1] \in Commands /\ Head(commands) = commands[1]
  <2>1. n \in Nat /\ n > 0 /\ DOMAIN commands = 1..n /\ commands[1] \in Commands
    BY <1>1
  <2>2. Len(Tail(commands)) = n - 1 /\ Tail(commands) \in Seq(Commands)
    BY <1>1
  <2> QED
    BY <1>1, <2>1, <2>2 DEF RedisCommand
<1>3. entry' = [entry EXCEPT ![commands[1].user] = commands[1].to]
  BY <1>2 DEF RedisCommand
<1> HIDE DEF n
<1>4. commands[1].user \in People /\ entry \in [People -> Sockets \cup {NoSocketId}]
  BY <1>2 DEF Commands, ChatTypeOK
<1>5. CASE ~UnderCommand(u) /\ entry[u] = x
  <2>1. commands[1].user # u /\ \A i \in 1..n : commands[i].user # u
    BY <1>2, <1>5 DEF UnderCommand
  <2>2. ~UnderCommand(u)'
    BY <1>2, <2>1 DEF UnderCommand
  <2> QED
    BY <1>3, <1>4, <1>5, <2>1, <2>2 DEF WillBe
<1>6. CASE \E i \in DOMAIN commands :
             /\ commands[i].user = u /\ commands[i].to = x
             /\ \A j \in DOMAIN commands : j > i => commands[j].user # u
  <2>1. PICK i \in 1..n : /\ commands[i].user = u /\ commands[i].to = x
                          /\ \A j \in 1..n : j > i => commands[j].user # u
    BY <1>2, <1>6
  <2>2. CASE i = 1
    <3>1. ~UnderCommand(u)'
      BY <1>2, <2>1, <2>2 DEF UnderCommand
    <3> QED
      BY <1>3, <1>4, <2>1, <2>2, <3>1 DEF WillBe
  <2>3. CASE i > 1
    <3>1. i - 1 \in DOMAIN commands' /\ commands'[i - 1].user = u /\ commands'[i - 1].to = x
      BY <1>2, <2>1, <2>3
    <3>2. \A j \in DOMAIN commands' : j > i - 1 => commands'[j].user # u
      BY <1>2, <2>1, <2>3
    <3> QED
      BY <3>1, <3>2 DEF WillBe
  <2> QED
    BY <1>2, <2>1, <2>2, <2>3
<1> QED
  BY <1>5, <1>6 DEF WillBe
(* Steps of requests, and those inside the room, leave all of this alone.  *)
LEMMA SocketsKeep ==
  ASSUME \A s \in Sockets : Connected(s)' = Connected(s) /\ socket'[s].user = socket[s].user,
         NEW u \in People
  PROVE  SocketsOf(u)' = SocketsOf(u)
BY DEF SocketsOf

LEMMA SameWillBe ==
  ASSUME UNCHANGED <<commands, entry>>, NEW u \in People, NEW x
  PROVE  WillBe(u, x)' = WillBe(u, x)
BY DEF WillBe, UnderCommand

LEMMA SessionQuiet ==
  ASSUME SessionInv, UNCHANGED <<commands, entry>>, doubled \subseteq doubled',
         \A s \in Sockets : Connected(s)' = Connected(s) /\ socket'[s].user = socket[s].user
  PROVE  SessionInv'
<1> SUFFICES ASSUME NEW u \in People, u \notin doubled' PROVE Followed(u)'
  BY DEF SessionInv
<1> QED
  BY SocketsKeep, SameWillBe DEF SessionInv, Followed

LEMMA SessionConnect ==
  ASSUME ChatTypeOK, SessionInv, NEW s \in Sockets, NEW v \in People, HandleConnection(s, v)
  PROVE  SessionInv'
<1> SUFFICES ASSUME NEW u \in People, u \notin doubled' PROVE Followed(u)'
  BY DEF SessionInv
<1> DEFINE c == [user |-> v, to |-> s]
<1>1. c \in Commands /\ c.user = v /\ c.to = s /\ commands' = Append(commands, c) /\ UNCHANGED entry
  BY DEF Commands, HandleConnection
<1> HIDE DEF c
<1>2. /\ \A t \in Sockets : t # s => socket'[t] = socket[t]
      /\ Connected(s)' /\ socket'[s].user = v /\ ~Connected(s)
      /\ u \notin doubled /\ (u = v => SocketsOf(u) = {})
  BY DEF HandleConnection, Connected, ChatTypeOK
<1>3. CASE u = v
  <2>1. SocketsOf(u)' = {s}
    BY <1>2, <1>3 DEF SocketsOf, Connected
  <2>2. WillBe(u, s)'
    BY <1>1, <1>3, Appended
  <2> QED
    BY <2>1, <2>2 DEF Followed
<1>4. CASE u # v
  <2>1. SocketsOf(u)' = SocketsOf(u)
    BY <1>2, <1>4 DEF SocketsOf, Connected
  <2>2. \A x \in Sockets \cup {NoSocketId} : WillBe(u, x) => WillBe(u, x)'
    BY <1>1, <1>4, Appended
  <2> QED
    BY <1>2, <2>1, <2>2 DEF SessionInv, Followed
<1> QED
  BY <1>3, <1>4

LEMMA SessionDisconnect ==
  ASSUME ChatInv, SessionInv, NEW s \in Sockets, HandleDisconnect(s)
  PROVE  SessionInv'
<1> SUFFICES ASSUME NEW u \in People, u \notin doubled' PROVE Followed(u)'
  BY DEF SessionInv
<1> DEFINE v == socket[s].user
           c == [user |-> v, to |-> NoSocketId]
<1>1. /\ v \in People
      /\ c \in Commands /\ c.user = v /\ c.to = NoSocketId
      /\ commands' = Append(commands, c) /\ UNCHANGED entry
  BY DEF Commands, HandleDisconnect, RemoveUserSocket, ChatInv, OfMember
<1>2. /\ \A t \in Sockets : t # s => socket'[t] = socket[t]
      /\ ~Connected(s)' /\ Connected(s) /\ u \notin doubled
  BY DEF HandleDisconnect, Connected, ChatInv, ChatTypeOK, Closed, NoSocket
<1> HIDE DEF c
<1>3. CASE u = v
  <2>1. SocketsOf(u) = {s}
    BY <1>2, <1>3 DEF SessionInv, Followed, SocketsOf
  <2>2. SocketsOf(u)' = {}
    BY <1>2, <2>1 DEF SocketsOf, Connected
  <2>3. WillBe(u, NoSocketId)'
    BY <1>1, <1>3, Appended DEF ChatInv
  <2> QED
    BY <2>2, <2>3 DEF Followed
<1>4. CASE u # v
  <2>1. SocketsOf(u)' = SocketsOf(u)
    BY <1>2, <1>4 DEF SocketsOf, Connected
  <2>2. \A x \in Sockets \cup {NoSocketId} : WillBe(u, x) => WillBe(u, x)'
    BY <1>1, <1>4, Appended DEF ChatInv
  <2> QED
    BY <1>2, <2>1, <2>2 DEF SessionInv, Followed
<1> QED
  BY <1>3, <1>4

LEMMA SessionRestart ==
  ASSUME SessionInv, Restart
  PROVE  SessionInv'
<1> SUFFICES ASSUME NEW u \in People, u \notin doubled' PROVE Followed(u)'
  BY DEF SessionInv
<1>1. u \notin doubled /\ SocketsOf(u) = {} /\ ~UnderCommand(u) /\ entry' = entry /\ commands' = <<>>
  BY DEF Restart
<1>2. entry[u] = NoSocketId
  BY <1>1 DEF SessionInv, Followed, WillBe, UnderCommand
<1>3. SocketsOf(u)' = {}
  BY DEF Restart, SocketsOf, Connected, Closed, NoSocket
<1> QED
  BY <1>1, <1>2, <1>3 DEF Followed, WillBe, UnderCommand

LEMMA SessionStep == ChatInv /\ SessionInv /\ [ChatNext]_chatVars => SessionInv'
<1> SUFFICES ASSUME ChatInv, SessionInv, [ChatNext]_chatVars PROVE SessionInv'  OBVIOUS
<1>0. ChatTypeOK
  BY DEF ChatInv
<1>1. ASSUME UNCHANGED socketVars PROVE SessionInv'
  BY <1>1, SessionQuiet DEF socketVars, Connected
<1>2. ASSUME NEW s \in Sockets, HandleJoinGroup(s) \/ EnterRoom(s) PROVE SessionInv'
  <2>1. \A t \in Sockets : Connected(t)' = Connected(t) /\ socket'[t].user = socket[t].user
    BY <1>0, <1>2 DEF HandleJoinGroup, EnterRoom, Connected, ChatTypeOK
  <2>2. UNCHANGED <<commands, entry, doubled>>
    BY <1>2 DEF HandleJoinGroup, EnterRoom
  <2> QED
    BY <2>1, <2>2, SessionQuiet
<1>3. ASSUME NEW v \in People, EntryExpires(v) PROVE SessionInv'
  <2>1. \A u \in People \ doubled', x \in Sockets \cup {NoSocketId} : WillBe(u, x)' = WillBe(u, x)
    BY <1>0, <1>3 DEF EntryExpires, WillBe, UnderCommand, ChatTypeOK
  <2>2. \A u \in People : SocketsOf(u)' = SocketsOf(u)
    BY <1>3, SocketsKeep DEF EntryExpires, Connected
  <2> QED
    BY <1>3, <2>1, <2>2 DEF SessionInv, Followed, EntryExpires
<1>4. ASSUME RedisCommand PROVE SessionInv'
  <2>1. \A u \in People : SocketsOf(u)' = SocketsOf(u)
    BY <1>4, SocketsKeep DEF RedisCommand, Connected
  <2> QED
    BY <1>0, <1>4, <2>1, CarriedOut DEF SessionInv, Followed, RedisCommand
<1>5. ASSUME NEW a \in Acts, NEW u \in People,
             \/ CreateGroup(a, u) \/ JoinGroup(a, u) \/ LeaveGroup(a, u)
             \/ \E v \in People : RemoveMember(a, u, v)
      PROVE  SessionInv'
  BY <1>1, <1>5 DEF CreateGroup, JoinGroup, LeaveGroup, RemoveMember
<1>6. ASSUME NEW a \in Acts,
             InsertMember(a) \/ DeleteMember(a) \/ SendMessage(a) \/ MessageCreated(a)
      PROVE  SessionInv'
  BY <1>1, <1>6 DEF InsertMember, DeleteMember, SendMessage, MessageCreated
<1>7. CASE UNCHANGED chatVars
  BY <1>1, <1>7 DEF chatVars
<1>8. CASE ChatNext
  <2>1. ASSUME NEW a \in Acts,
               \/ \E u \in People :
                    \/ CreateGroup(a, u) \/ JoinGroup(a, u) \/ LeaveGroup(a, u)
                    \/ \E v \in People : RemoveMember(a, u, v)
               \/ InsertMember(a) \/ DeleteMember(a) \/ SendMessage(a) \/ MessageCreated(a)
        PROVE  SessionInv'
    BY <2>1, <1>5, <1>6, Zenon
  <2>2. ASSUME NEW s \in Sockets,
               \/ \E u \in People : HandleConnection(s, u)
               \/ HandleDisconnect(s) \/ HandleJoinGroup(s) \/ EnterRoom(s)
        PROVE  SessionInv'
    BY <2>2, <1>0, <1>2, SessionConnect, SessionDisconnect, Zenon
  <2> QED
    BY <1>3, <1>4, <1>8, <2>1, <2>2, SessionRestart, Zenon DEF ChatNext
<1> QED
  BY <1>7, <1>8

\* Once the session manager's commands are carried out, the entry of a user who
\* never had two sockets open is that of the open one: only a second socket, whose
\* disconnect deletes the entry of the first, an expiry or a restart disturbs it
\* (gateway-session.manager.ts).
THEOREM SessionOfOpenSocketAlways == ChatSpec => []SessionOfOpenSocket
<1>1. ChatInit => SessionInv
  <2> SUFFICES ASSUME ChatInit, NEW u \in People PROVE Followed(u)
    BY DEF SessionInv
  <2>1. SocketsOf(u) = {}
    BY DEF ChatInit, SocketsOf, Connected, NoSocket
  <2>2. ~UnderCommand(u) /\ entry[u] = NoSocketId
    BY DEF ChatInit, UnderCommand
  <2> QED
    BY <2>1, <2>2 DEF Followed, WillBe
<1>2. SessionInv => SessionOfOpenSocket
  BY DEF SessionInv, Followed, WillBe, UnderCommand, SessionOfOpenSocket
<1> QED
  BY <1>1, <1>2, ChatAlways, SessionStep, PTL DEF ChatSpec
=============================================================================
