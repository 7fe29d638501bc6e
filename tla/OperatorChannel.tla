--------------------------- MODULE OperatorChannel ---------------------------
(* The Telegram account of one operator as a channel to customers: signing in *)
(* by QR code, the client the user gateway keeps for the account, and the     *)
(* customers' messages it forwards to the api. All of it runs on one loop.    *)
EXTENDS Integers, Sequences, FiniteSets

CONSTANTS SignIn,        \* calls of qr_start
          QueueLimit,    \* the router's queue
          MaxWrite       \* bound: messages of customers

ASSUME ChannelBounds == QueueLimit \in Nat \ {0} /\ MaxWrite \in Nat

VARIABLES phase,         \* _AuthState.phase
          authRow,       \* operator_telegram_auth: phase, customer_channel_active
          signIn,        \* qr_start, then its scan task
          clients,       \* connected clients, the registered one, and their queues
          claims,        \* the traces that the api has claimed
          channelLog     \* ghost

channelVars == <<phase, authRow, signIn, clients, claims, channelLog>>

Write == 1..MaxWrite
NoClients == [live |-> {}, registered |-> {}, queue |-> [s \in SignIn |-> <<>>]]

ChannelInit ==
  /\ phase = "idle"
  /\ authRow = [phase |-> "idle", active |-> FALSE]
  /\ signIn = [s \in SignIn |-> "none"]
  /\ clients = NoClients /\ claims = {}
  /\ channelLog = [written |-> 0, taken |-> [w \in Write |-> 0], overlapped |-> FALSE,
                   unclean |-> FALSE]

At(s, pc) == signIn' = [signIn EXCEPT ![s] = pc]

\* Allowed while no sign-in got further than its code. The row's flag goes off.
qr_start(s) ==
  /\ signIn[s] = "none" /\ phase \in {"idle", "qr_pending"}
  /\ authRow' = [phase |-> "qr_pending", active |-> FALSE]
  /\ At(s, "connect")
  /\ UNCHANGED <<phase, clients, claims, channelLog>>

\* After two awaits, and whatever the phase has become meanwhile.
ShowCode(s) ==
  /\ signIn[s] = "connect"
  /\ \/ phase' = "qr_pending" /\ At(s, "scan")
     \/ UNCHANGED phase /\ At(s, "over")
  /\ UNCHANGED <<authRow, clients, claims, channelLog>>

\* A code that nobody scans is renewed, and nobody waits for the new one; an
\* account with a password asks for it; any other failure resets the phase.
await_qr_scan(s) ==
  /\ signIn[s] = "scan"
  /\ \/ phase' = "authenticated" /\ At(s, "mark") /\ UNCHANGED authRow
     \/ UNCHANGED <<phase, authRow>> /\ At(s, "over")
     \/ phase' = "2fa_pending" /\ At(s, "password")
        /\ authRow' = [authRow EXCEPT !.phase = "2fa_pending"]
     \/ phase' = "idle" /\ At(s, "over") /\ UNCHANGED authRow
  /\ UNCHANGED <<clients, claims, channelLog>>

\* A wrong password leaves the sign-in where it is.
verify_2fa(s) ==
  /\ signIn[s] = "password" /\ phase = "2fa_pending"
  /\ phase' = "authenticated" /\ At(s, "mark")
  /\ UNCHANGED <<authRow, clients, claims, channelLog>>

Starting == {s \in SignIn : signIn[s] = "start"}

(* Mutant: the pool connects a client though it has one. *)
mark_authenticated_again(s) ==
  /\ signIn[s] = "mark"
  /\ authRow' = [phase |-> "authenticated", active |-> FALSE]
  /\ At(s, "start")
  /\ channelLog' = [channelLog EXCEPT !.overlapped = @ \/ Starting # {}]
  /\ UNCHANGED <<phase, clients, claims>>

\* An error after the scan resets the phase; after a password it stays, and no
\* further sign-in is allowed.
SignInFails(s) ==
  /\ signIn[s] \in {"mark", "start"}
  /\ phase' \in {"idle", phase}
  /\ At(s, "over")
  /\ UNCHANGED <<authRow, clients, claims, channelLog>>

\* The phase reads "authenticated" already; after get_me the row says so too,
\* with the flag off, and the pool starts unless it has a client.
mark_authenticated(s) ==
  /\ signIn[s] = "mark"
  /\ authRow' = [phase |-> "authenticated", active |-> FALSE]
  /\ At(s, IF clients.registered = {} THEN "start" ELSE "over")
  /\ channelLog' = [channelLog EXCEPT !.overlapped = @ \/ Starting # {}]
  /\ UNCHANGED <<phase, clients, claims>>

\* pool.start after its await. A later start replaces the registered client and
\* leaves the earlier one connected, with its router and task.
PoolStarts(s) ==
  /\ signIn[s] = "start"
  /\ clients' = [clients EXCEPT !.live = @ \cup {s}, !.registered = {s}]
  /\ authRow' = [authRow EXCEPT !.active = TRUE]
  /\ At(s, "over")
  /\ UNCHANGED <<phase, claims, channelLog>>

\* A call of qr_start that is over can be made again.
SignInAgain(s) ==
  /\ signIn[s] = "over" /\ s \notin clients.live
  /\ At(s, "none")
  /\ UNCHANGED <<phase, authRow, clients, claims, channelLog>>

\* Connected clients hear of a customer's message, which may be new or, after a
\* reconnect or the recovery of a gap, one that they heard before. A client drops it
\* when the rate limit refuses it or its queue is full.
handle_new_message ==
  /\ \E w \in Write, heard \in SUBSET clients.live :
       /\ w <= channelLog.written + 1
       /\ clients' = [clients EXCEPT !.queue = [s \in SignIn |->
            IF s \in heard /\ Len(clients.queue[s]) < QueueLimit
              THEN Append(clients.queue[s], w) ELSE clients.queue[s]]]
       /\ channelLog' = [channelLog EXCEPT !.written = IF w > @ THEN w ELSE @]
  /\ UNCHANGED <<phase, authRow, signIn, claims>>

\* Of the operator's account, the chat and the message's number, whichever client
\* heard it. (A message without a number gets a random trace; Telegram has none.)
_derive_trace_id(w) == <<"tg-user", w>>

\* The task forwards without looking back, and the api takes a message for handling
\* when it has not claimed its trace before. One that does not get there is lost.
Forward(s) ==
  /\ clients.queue[s] # <<>>
  /\ clients' = [clients EXCEPT !.queue[s] = Tail(@)]
  /\ LET w == Head(clients.queue[s])
         trace == _derive_trace_id(w) IN
       \/ UNCHANGED <<claims, channelLog>>
       \/ /\ claims' = claims \cup {trace}
          /\ channelLog' = IF trace \in claims THEN channelLog
                                              ELSE [channelLog EXCEPT !.taken[w] = @ + 1]
  /\ UNCHANGED <<phase, authRow, signIn>>

\* Rows in the middle of a sign-in are idle again.
clear_stale_on_startup(row) == IF row.phase = "authenticated" THEN "authenticated" ELSE "idle"

\* On shutdown the pool disconnects the client it knows and then clears the flag;
\* after a crash, or a disconnect that raises, the flag stays. Sign-ins under way
\* are forgotten, and no client is started.
RestartGateway(clean) ==
  /\ phase' = "idle"
  /\ authRow' = [phase |-> clear_stale_on_startup(authRow),
                 active |-> authRow.active /\ ~(clean /\ clients.registered # {})]
  /\ signIn' = [s \in SignIn |-> "none"]
  /\ clients' = NoClients
  /\ channelLog' = [channelLog EXCEPT !.unclean = @ \/ ~clean]
  /\ UNCHANGED claims

ChannelNext ==
  \/ \E s \in SignIn : \/ qr_start(s) \/ ShowCode(s) \/ await_qr_scan(s) \/ verify_2fa(s)
                       \/ mark_authenticated(s) \/ SignInFails(s) \/ PoolStarts(s)
                       \/ SignInAgain(s) \/ Forward(s)
  \/ handle_new_message
  \/ \E clean \in BOOLEAN : RestartGateway(clean)

ChannelSpec == ChannelInit /\ [][ChannelNext]_channelVars

-----------------------------------------------------------------------------
\* Unless two starts of the pool overlapped, one client at most is connected, and
\* it is the one the pool answers through. Even if they did, the api takes a
\* message for handling once, whichever clients forward it and however often they
\* hear it again. And unless the gateway stopped uncleanly, the row never calls a
\* channel active whose account has no client.
ChannelServesOnce ==
  /\ ~channelLog.overlapped =>
       clients.live = clients.registered /\ Cardinality(clients.live) <= 1
  /\ \A w \in Write : channelLog.taken[w] <= 1
  /\ authRow.active /\ ~channelLog.unclean => clients.registered # {}
=============================================================================
