----------------------------- MODULE RfbHandshake -----------------------------
(***************************************************************************)
(* From the connection to normal operation: versions, security types,      *)
(* authentication and the initial messages, by libvncserver (rfbserver.c,  *)
(* auth.c, tightvnc-filetransfer/rfbtightserver.c) on one side and by the  *)
(* viewer of the app (VncCanvas, RfbProto) or a foreign viewer on the      *)
(* other.                                                                  *)
(*                                                                         *)
(* Each side reads the message its place in the protocol makes it expect;  *)
(* InStep says that it is the one the other side wrote.  Each client has a *)
(* thread of its own in the server, and the list of security types, which  *)
(* is one for all of them, belongs to no lock: taking a type out of it,    *)
(* putting one in, walking it to send it and looking a choice up in it are *)
(* steps of their own; each walk over the few handlers is one step.  A     *)
(* foreign viewer follows the protocol of the version it speaks, and takes *)
(* a security type whether it was offered it or not.                       *)
(***************************************************************************)
EXTENDS Naturals, Sequences, Functions

CONSTANTS
  Clients,
  Minors     \* minor versions foreign viewers speak

ASSUME HandshakeAssumption == Minors \subseteq {3, 7, 8, 889}   \* 889: Mac OS X

VARIABLES
  password,   \* authPasswdData # NULL
  knows,      \* clients that answer the challenge right
  kind,       \* "app", the viewer of the app; "foreign"; "called", a foreign viewer that
              \* listens and was connected to: cl->reverseConnection
  list,       \* [first: securityHandlers, after: the next fields of the handlers]
  state,      \* cl->state, and inside a handler: "tightType", "tightResponse", reading,
              \* "register", "listing", in rfbSendSecurityTypeList
  minor,      \* cl->protocolMinorVersion
  tight,      \* the extension is enabled for the client; protocolTightVNC of the viewer
  toClient, toServer,
  at          \* what the client reads next, or "normal", "closed", "absent"

fixedVars == <<password, knows, kind>>
handshakeVars == <<fixedVars, list, state, minor, tight, toClient, toServer, at>>

-----------------------------------------------------------------------------
(* The list of security handlers *)

Handlers == {"None", "VncAuth", "Tight"}
NULL == "NULL"

\* The list is followed along the fields next; there are three handlers.
Second(l) == l.after[l.first]
Third(l) == l.after[Second(l)]
Types(l) ==
  IF l.first = NULL THEN <<>>
  ELSE IF Second(l) = NULL THEN <<l.first>>
  ELSE IF Third(l) = NULL THEN <<l.first, Second(l)>>
  ELSE <<l.first, Second(l), Third(l)>>
Listed(l, h) == h \in Range(Types(l))

\* One step of the recursion of rfbUnregisterSecurityHandler and rfbRegisterSecurityHandler.
TakeOut(l, h) ==
  IF l.first = h THEN [l EXCEPT !.first = l.after[h]]
  ELSE IF Listed(l, h)
  THEN LET pre == CHOOSE p \in Range(Types(l)) : l.after[p] = h
       IN  [l EXCEPT !.after[pre] = l.after[h]]
  ELSE l

PutIn(l, h) ==
  IF h = NULL \/ Listed(l, h) THEN l
  ELSE [first |-> h, after |-> [l.after EXCEPT ![h] = l.first]]

\* Both go on with what the handler's next points to, which it keeps when it is taken out.
Unregister(l, h) ==
  LET n == l.after[h] IN TakeOut(TakeOut(TakeOut(l, h), n), l.after[n])
Register(l, h) ==
  LET n == l.after[h] IN PutIn(PutIn(PutIn(l, h), n), l.after[n])

-----------------------------------------------------------------------------
(* The server *)

\* rfbAuthNewClient: the type the server wants of the client, which takes the other one's
\* place in the list.
PasswordNeeded(c) == password /\ kind[c] # "called"
Primary(c) == IF PasswordNeeded(c) THEN "VncAuth" ELSE "None"
Other(c) == IF PasswordNeeded(c) THEN "None" ELSE "VncAuth"

Awaited(c) ==
  CASE state[c] = "version" -> "version"
    [] state[c] = "securityType" -> "choice"
    [] state[c] = "tightType" -> "authType"
    [] state[c] \in {"authentication", "tightResponse"} -> "response"
    [] state[c] = "init" -> "init"
    [] OTHER -> "any"

\* A message of this kind is there, in a state in which it is read.
Gets(c, what) ==
  /\ Awaited(c) = what /\ toServer[c] # <<>> /\ Head(toServer[c])[1] = what
  /\ toServer' = [toServer EXCEPT ![c] = Tail(@)]

Got(c) == Head(toServer[c])[2]
Send(c, messages) == toClient' = [toClient EXCEPT ![c] = @ \o messages]
Goto(c, s) == state' = [state EXCEPT ![c] = s]

Connect(c, as) ==
  /\ state[c] = "absent"
  /\ kind' = [kind EXCEPT ![c] = as]
  /\ Goto(c, "version")
  /\ Send(c, <<<<"version", 8>>>>)
  /\ at' = [at EXCEPT ![c] = "version"]
  /\ UNCHANGED <<password, knows, list, minor, tight, toServer>>

\* The end of rfbProcessClientInitMessage: what is sent, and who is closed by it.
InitReply(c) ==
  <<<<"serverInit", 0>>>> \o (IF tight[c] THEN <<<<"caps", 0>>>> ELSE <<>>)
Initialised(c, shared) ==
  [d \in Clients |->
     IF d = c THEN "normal"
     ELSE IF ~shared /\ kind[c] # "called" /\ state[d] = "normal" THEN "shutdown"
     ELSE state[d]]

\* rfbProcessClientProtocolVersion, rfbAuthNewClient; with 3.7 and above as far as the
\* other type is taken out of the list.
ProtocolVersion(c) ==
  /\ Gets(c, "version")
  /\ minor' = [minor EXCEPT ![c] = Got(c)]
  /\ IF Got(c) < 7
     THEN /\ Send(c, IF Primary(c) = "None" THEN <<<<"type", "None">>>>
                     ELSE <<<<"type", "VncAuth">>, <<"challenge", 0>>>>)
          /\ Goto(c, IF Primary(c) = "None" THEN "init" ELSE "authentication")
          /\ UNCHANGED list
     ELSE /\ list' = Unregister(list, Other(c))
          /\ Goto(c, "register")
          /\ UNCHANGED toClient
  /\ UNCHANGED <<fixedVars, tight, at>>

\* The rest of rfbSendSecurityTypeList.
RegisterType(c) ==
  /\ state[c] = "register"
  /\ list' = Register(list, Primary(c))
  /\ Goto(c, "listing")
  /\ UNCHANGED <<fixedVars, minor, tight, toClient, toServer, at>>

\* "The execution should never reach here": another client's thread has taken the type out
\* again, and the list is empty.
SendTypeList(c) ==
  /\ state[c] = "listing"
  /\ IF Types(list) = <<>>
     THEN Send(c, <<<<"types", <<>>>>, <<"reason", 0>>>>) /\ Goto(c, "shutdown")
     ELSE Send(c, <<<<"types", Types(list)>>>>) /\ Goto(c, "securityType")
  /\ UNCHANGED <<fixedVars, list, minor, tight, toServer, at>>

\* SecurityResult for a client that is not asked for a password.  Mutant: the version
\* is not looked at.
AlwaysResult(c) == <<<<"result", "ok">>>>
ResultOfNone(c) == IF minor[c] > 7 /\ minor[c] # 889 THEN <<<<"result", "ok">>>> ELSE <<>>

\* rfbVncAuthNone.  The viewer of Mac OS X sends no ClientInit.  Mutant: it is waited for.
InitAwaited(c) ==
  /\ Send(c, ResultOfNone(c))
  /\ Goto(c, "init")
AuthNone(c) ==
  IF minor[c] = 889
  THEN Send(c, InitReply(c)) /\ state' = Initialised(c, TRUE)
  ELSE Send(c, ResultOfNone(c)) /\ Goto(c, "init")

\* rfbHandleSecTypeTight, up to its first read.  Mutant: no authentication is asked for.
TightUnasked(c) ==
  /\ tight' = [tight EXCEPT ![c] = TRUE]
  /\ Send(c, <<<<"tunnelCaps", 0>>, <<"authCaps", 0>>>> \o
             (IF minor[c] > 7 THEN <<<<"result", "ok">>>> ELSE <<>>))
  /\ Goto(c, "init")
SecTypeTight(c) ==
  /\ tight' = [tight EXCEPT ![c] = TRUE]
  /\ IF PasswordNeeded(c)
     THEN /\ Send(c, <<<<"tunnelCaps", 0>>, <<"authCaps", 1>>>>)
          /\ Goto(c, "tightType")
     ELSE /\ Send(c, <<<<"tunnelCaps", 0>>, <<"authCaps", 0>>>> \o
                     (IF minor[c] > 7 THEN <<<<"result", "ok">>>> ELSE <<>>))
          /\ Goto(c, "init")

\* rfbProcessClientSecurityType: the choice is looked up in the list as it is now.
SecurityType(c) ==
  /\ Gets(c, "choice")
  /\ \/ /\ ~Listed(list, Got(c))
        /\ Goto(c, "shutdown")
        /\ UNCHANGED <<toClient, tight>>
     \/ /\ Got(c) = "None" /\ Listed(list, Got(c))
        /\ AuthNone(c)
        /\ UNCHANGED tight
     \/ /\ Got(c) = "VncAuth" /\ Listed(list, Got(c))
        /\ Send(c, <<<<"challenge", 0>>>>)
        /\ Goto(c, "authentication")
        /\ UNCHANGED tight
     \/ /\ Got(c) = "Tight" /\ Listed(list, Got(c))
        /\ SecTypeTight(c)
  /\ UNCHANGED <<fixedVars, list, minor, at>>

\* rfbProcessClientAuthType: VncAuth is the only one sent.
AuthType(c) ==
  /\ Gets(c, "authType")
  /\ Send(c, <<<<"challenge", 0>>>>)
  /\ Goto(c, "tightResponse")
  /\ UNCHANGED <<fixedVars, list, minor, tight, at>>

\* rfbAuthProcessClientMessage.
AuthMessage(c) ==
  /\ Gets(c, "response")
  /\ IF Got(c) = "right"
     THEN Send(c, <<<<"result", "ok">>>>) /\ Goto(c, "init")
     ELSE /\ Send(c, <<<<"result", "failed">>>> \o
                     (IF minor[c] > 7 THEN <<<<"reason", 0>>>> ELSE <<>>))
          /\ Goto(c, "shutdown")
  /\ UNCHANGED <<fixedVars, list, minor, tight, at>>

InitMessage(c) ==
  /\ Gets(c, "init")
  /\ Send(c, InitReply(c))
  /\ state' = Initialised(c, Got(c) = "shared")
  /\ UNCHANGED <<fixedVars, list, minor, tight, at>>

\* A read finds the end of the stream.
ClientGone(c) ==
  /\ at[c] = "closed" /\ toServer[c] = <<>>
  /\ state[c] \notin {"register", "listing", "shutdown"}
  /\ Goto(c, "shutdown")
  /\ UNCHANGED <<fixedVars, list, minor, tight, toClient, toServer, at>>

ServerStep(c) ==
  \/ ProtocolVersion(c) \/ RegisterType(c) \/ SendTypeList(c) \/ SecurityType(c)
  \/ AuthType(c) \/ AuthMessage(c) \/ InitMessage(c) \/ ClientGone(c)

-----------------------------------------------------------------------------
(* The client *)

serverVars == <<fixedVars, list, state, minor, tight>>

Reads(c, what) ==
  /\ at[c] = what /\ toClient[c] # <<>> /\ Head(toClient[c])[1] = what
  /\ toClient' = [toClient EXCEPT ![c] = Tail(@)]
Read(c) == Head(toClient[c])[2]
Write(c, messages) == toServer' = [toServer EXCEPT ![c] = @ \o messages]
Then(c, what) == at' = [at EXCEPT ![c] = what]

\* writeClientInit of the viewer asks for the screen alone; a foreign viewer may share it.
WriteInit(c, shared) ==
  /\ Write(c, <<<<"init", IF shared THEN "shared" ELSE "alone">>>>)
  /\ Then(c, "serverInit")
Sharing(c) == IF kind[c] = "app" THEN {FALSE} ELSE BOOLEAN

\* readVersionMsg, writeVersionMsg; the server's version is 3.8.
ReadVersion(c) ==
  /\ Reads(c, "version")
  /\ \E m \in IF kind[c] = "app" THEN {8} ELSE Minors :
       /\ Write(c, <<<<"version", m>>>>)
       /\ Then(c, IF m < 7 THEN "type" ELSE "types")
  /\ UNCHANGED <<serverVars>>

\* readSecurityType: with version 3.3 the server decides.
ReadType(c) ==
  /\ Reads(c, "type")
  /\ IF Read(c) = "None"
     THEN \E shared \in Sharing(c) : WriteInit(c, shared)
     ELSE Then(c, "challenge") /\ UNCHANGED toServer
  /\ UNCHANGED <<serverVars>>

\* selectSecurityType: Tight, or the first of the others.  A foreign viewer may have been
\* told by its user which type to take, and looks for none; the Tight ones speak 3.8.
Choice(c, types) ==
  IF kind[c] # "app" THEN {"None", "VncAuth"} \cup (IF minor[c] = 8 THEN {"Tight"} ELSE {})
  ELSE IF "Tight" \in Range(types) THEN {"Tight"} ELSE {Head(types)}

\* authenticateNone: a client of version 3.8 waits for the result, others go on.
AfterNone(c) ==
  CASE minor[c] = 8 -> Then(c, "result") /\ Write(c, <<<<"choice", "None">>>>)
    [] minor[c] = 889 -> Then(c, "serverInit") /\ Write(c, <<<<"choice", "None">>>>)
    [] OTHER -> \E shared \in Sharing(c) :
                  /\ Write(c, <<<<"choice", "None">>,
                                <<"init", IF shared THEN "shared" ELSE "alone">>>>)
                  /\ Then(c, "serverInit")

ReadTypes(c) ==
  /\ Reads(c, "types")
  /\ \/ /\ Read(c) = <<>>
        /\ Then(c, "reason")
        /\ UNCHANGED toServer
     \/ /\ Read(c) # <<>> /\ "None" \in Choice(c, Read(c))
        /\ AfterNone(c)
     \/ /\ Read(c) # <<>> /\ "VncAuth" \in Choice(c, Read(c))
        /\ Write(c, <<<<"choice", "VncAuth">>>>)
        /\ Then(c, "challenge")
     \/ /\ Read(c) # <<>> /\ "Tight" \in Choice(c, Read(c))
        /\ Write(c, <<<<"choice", "Tight">>>>)
        /\ Then(c, "tunnelCaps")
  /\ UNCHANGED serverVars

\* setupTunneling, negotiateAuthenticationTight.
ReadTunnelCaps(c) ==
  /\ Reads(c, "tunnelCaps")
  /\ Then(c, "authCaps")
  /\ UNCHANGED <<serverVars, toServer>>

ReadAuthCaps(c) ==
  /\ Reads(c, "authCaps")
  /\ IF Read(c) = 0
     THEN Then(c, "result") /\ UNCHANGED toServer
     ELSE Then(c, "challenge") /\ Write(c, <<<<"authType", "VncAuth">>>>)
  /\ UNCHANGED <<serverVars>>

\* authenticateVNC.
ReadChallenge(c) ==
  /\ Reads(c, "challenge")
  /\ Write(c, <<<<"response", IF c \in knows THEN "right" ELSE "wrong">>>>)
  /\ Then(c, "result")
  /\ UNCHANGED <<serverVars>>

\* readSecurityResult; then doProtocolInitialisation.
ReadResult(c) ==
  /\ Reads(c, "result")
  /\ IF Read(c) = "ok"
     THEN \E shared \in Sharing(c) : WriteInit(c, shared)
     ELSE /\ Then(c, IF minor[c] >= 8 THEN "reason" ELSE "closed")
          /\ UNCHANGED toServer
  /\ UNCHANGED <<serverVars>>

\* readConnFailedReason throws.
ReadReason(c) ==
  /\ Reads(c, "reason")
  /\ Then(c, "closed")
  /\ UNCHANGED <<serverVars, toServer>>

\* readServerInit.
ReadServerInit(c) ==
  /\ Reads(c, "serverInit")
  /\ Then(c, IF tight[c] THEN "caps" ELSE "normal")
  /\ UNCHANGED <<serverVars, toServer>>

ReadCaps(c) ==
  /\ Reads(c, "caps")
  /\ Then(c, "normal")
  /\ UNCHANGED <<serverVars, toServer>>

\* All that the server has written is read, and it has closed the connection.
ServerClosed(c) ==
  /\ state[c] = "shutdown" /\ toClient[c] = <<>> /\ at[c] # "closed"
  /\ Then(c, "closed")
  /\ UNCHANGED <<serverVars, toClient, toServer>>

\* The user gives up.
Leave(c) ==
  /\ at[c] \notin {"absent", "closed"}
  /\ Then(c, "closed")
  /\ UNCHANGED <<serverVars, toClient, toServer>>

ClientStep(c) ==
  \/ ReadVersion(c) \/ ReadType(c) \/ ReadTypes(c) \/ ReadTunnelCaps(c)
  \/ ReadAuthCaps(c) \/ ReadChallenge(c) \/ ReadResult(c) \/ ReadReason(c)
  \/ ReadServerInit(c) \/ ReadCaps(c) \/ ServerClosed(c)

-----------------------------------------------------------------------------
(* vncStartServer has registered the type of the Tight extension *)

HandshakeInit ==
  /\ password \in BOOLEAN
  /\ knows \in SUBSET Clients
  /\ kind = [c \in Clients |-> "none"]
  /\ list = Register([first |-> NULL, after |-> [h \in Handlers \cup {NULL} |-> NULL]], "Tight")
  /\ state = [c \in Clients |-> "absent"]
  /\ minor = [c \in Clients |-> 0]
  /\ tight = [c \in Clients |-> FALSE]
  /\ toClient = [c \in Clients |-> <<>>]
  /\ toServer = [c \in Clients |-> <<>>]
  /\ at = [c \in Clients |-> "absent"]

HandshakeNext ==
  \E c \in Clients :
    \/ \E as \in {"app", "foreign", "called"} : Connect(c, as)
    \/ ServerStep(c) \/ ClientStep(c) \/ Leave(c)
HandshakeSpec == HandshakeInit /\ [][HandshakeNext]_handshakeVars

-----------------------------------------------------------------------------
(* Properties *)

\* Each side reads what the other has written for it: whatever the version, the security
\* type and the password, the states of rfbProcessClientMessage and the calls of
\* connectAndAuthenticate go through the protocol together.
InStep ==
  \A c \in Clients :
    /\ \/ at[c] \in {"absent", "normal", "closed"} \/ toClient[c] = <<>>
       \/ Head(toClient[c])[1] = at[c]
    /\ \/ Awaited(c) = "any" \/ toServer[c] = <<>>
       \/ Head(toServer[c])[1] = Awaited(c)

\* The two never wait for each other: as long as the client waits for something, there is
\* a message for it or for the server, the server is at work on the list or has closed the
\* connection.  The viewer of Mac OS X, which sends no ClientInit, is one of the ways to
\* break it.
NobodyStuck ==
  \A c \in Clients :
    /\ at[c] \notin {"absent", "normal", "closed"} =>
         \/ toClient[c] # <<>> \/ state[c] \in {"register", "listing", "shutdown"}
         \/ toServer[c] # <<>> /\ Awaited(c) # "any"
    /\ at[c] = "normal" => state[c] \in {"normal", "shutdown"}

\* Where a password is asked for nobody gets past the authentication without it, by any
\* version and type, offered or not, and however the threads of the clients change the list
\* meanwhile, as long as the server has made no connection itself that has got past its
\* version.  From then on None is in the list at times, and whoever asks for it gets it.
CalledOut == \E c \in Clients : kind[c] = "called" /\ state[c] \notin {"absent", "version"}
PasswordAsked ==
  CalledOut \/ \A c \in Clients :
                 PasswordNeeded(c) /\ state[c] \in {"init", "normal"} => c \in knows

\* rfbProcessClientSecurityType, auth.c:349: "Make sure it was present in the list sent by
\* the server."  The handlers are searched as other clients have left them, and as the
\* choice is not compared with what was sent: the code does not keep to this.
OfferHonoured ==
  \A c \in Clients :
    state[c] = "securityType" /\ toServer[c] # <<>> => Listed(list, Got(c))
=============================================================================
