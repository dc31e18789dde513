--------------------------- MODULE ClientRegistry ---------------------------
(* What WC_ClientMap promises its callers, without maps, shadows or locks:  *)
(* a registry of HAL clients in which every call made by a non-real-time    *)
(* thread takes effect (or fails, or reads) in one indivisible instant      *)
(* between its invocation and its return.  `clients` is what the real-time  *)
(* IO threads see.  ClientMap implements this specification.                *)
EXTENDS ClientTypes

CONSTANT Thread      \* the HAL's and the app's non-real-time caller threads

VARIABLES
    clients,         \* what a lookup by client ID returns
    call,            \* per thread: the call in progress
    stage,           \* per thread: "called", or "done" once it has taken effect,
    result           \* and then its outcome

vars == <<clients, call, stage, result>>

Init ==
    /\ clients = [i \in ClientID |-> NoClient]
    /\ call = [t \in Thread |-> NoOp]
    /\ stage = [t \in Thread |-> "called"]
    /\ result = [t \in Thread |-> Pending]

Invoke(t) ==
    /\ call[t] = NoOp
    /\ \E op \in Op : call' = [call EXCEPT ![t] = op]
    /\ UNCHANGED <<clients, stage, result>>

Finish(t, r) == result' = [result EXCEPT ![t] = r]

(* A client joins with its defaults, except a volume it may have had before. *)
AddTakesEffect(t) ==
    LET op == call[t] IN
    /\ op.kind = "Add"
    /\ \/ /\ clients[op.id] = NoClient
          /\ \E v \in Volume :
                clients' = [clients EXCEPT ![op.id] = [op.client EXCEPT !.vol = v]]
          /\ Finish(t, Ok)
       \/ clients[op.id] # NoClient /\ Finish(t, Failed) /\ UNCHANGED clients

RemoveTakesEffect(t) ==
    LET op == call[t] IN
    /\ op.kind = "Remove"
    /\ \/ /\ clients[op.id] # NoClient
          /\ clients' = [clients EXCEPT ![op.id] = NoClient]
          /\ Finish(t, Ok)
       \/ clients[op.id] = NoClient /\ Finish(t, Failed) /\ UNCHANGED clients

(* One setting changes for several clients of one process or application at *)
(* once, and the caller is told whether any client was found.               *)
SetTakesEffect(t) ==
    LET op == call[t] IN
    /\ op.kind \in {"SetVolume", "SetGains"}
    /\ \E S \in SUBSET {i \in ClientID : clients[i] # NoClient
                                         /\ Matches(op.key, clients[i])} :
          /\ clients' = [i \in ClientID |-> IF i \in S THEN WithSetting(clients[i], op)
                                                       ELSE clients[i]]
          /\ Finish(t, Found(S))

(* The music player flag of every client is recomputed at once. *)
MusicTakesEffect(t) ==
    LET op == call[t] IN
    /\ op.kind = "Music"
    /\ clients' = [i \in ClientID |->
                     IF clients[i] = NoClient THEN NoClient
                     ELSE [clients[i] EXCEPT !.music = Matches(op.key, clients[i])]]
    /\ Finish(t, Ok)

ReadTakesEffect(t) ==
    LET op == call[t] IN
    /\ UNCHANGED clients
    /\ \/ op.kind = "Get" /\ Finish(t, {clients[op.id]} \ {NoClient})
       \/ op.kind = "GetByPID" /\ \E S \in SUBSET {i \in ClientID : clients[i] # NoClient
                                                  /\ Matches(op.key, clients[i])} :
              Finish(t, {clients[i] : i \in S})

TakesEffect(t) ==
    /\ call[t] # NoOp /\ stage[t] = "called"
    /\ stage' = [stage EXCEPT ![t] = "done"]
    /\ \/ AddTakesEffect(t) \/ RemoveTakesEffect(t) \/ SetTakesEffect(t)
       \/ MusicTakesEffect(t) \/ ReadTakesEffect(t)
    /\ UNCHANGED call

Return(t) ==
    /\ stage[t] = "done"
    /\ stage' = [stage EXCEPT ![t] = "called"]
    /\ call' = [call EXCEPT ![t] = NoOp]
    /\ result' = [result EXCEPT ![t] = Pending]
    /\ UNCHANGED clients

Next == \E t \in Thread : Invoke(t) \/ TakesEffect(t) \/ Return(t)

Spec == Init /\ [][Next]_vars
=============================================================================
