---------------------------- MODULE SipRegister ----------------------------
(***************************************************************************)
(* Registration: a user agent that keeps one user registered               *)
(* (SipRegisterThread.cpp, SipUserAgentRegister.hpp, SipUserAgentLogin.hpp,*)
(* SipServerInfo.cpp, Stop of SipUserAgent.cpp) and the registrar of       *)
(* KSipServer (SipServerRegister.hpp, UserMap.cpp, NonceMap.cpp).          *)
(*                                                                         *)
(* The register thread looks at the registration every second and sends a  *)
(* REGISTER when one is due; a receive thread handles the responses, which *)
(* are matched to the registration by user and address alone; the          *)
(* application inserts, updates and deletes it, and stops the user agent.  *)
(* All of them work under m_clsRegisterMutex.                              *)
(*                                                                         *)
(* Of the stack only its promise is here (SipRequest): each REGISTER is    *)
(* handled at most once by the registrar, and the user agent is told one   *)
(* outcome, a 408 if no response came.                                     *)
(*                                                                         *)
(* Time is in ticks; ages saturate.                                        *)
(*                                                                         *)
(* An operator named F_Fault is F with a fault seeded in it: no action     *)
(* uses it, and the properties are shown to notice it.                     *)
(***************************************************************************)
EXTENDS Integers

CONSTANTS
  Slots,       \* bound: REGISTERs under way at the same time
  Timeout,     \* m_iLoginTimeout the application asks for, in ticks
  Mins,        \* m_iMinRegisterTimeout of the registrar; one in each behaviour
  Slack,       \* ticks the registrar keeps a user beyond his time
  Retry,       \* the 60 s after which a login that failed is tried again
  MaxTries,    \* how often Stop looks whether the user is logged out (100)
  MaxTroubles  \* bound: messages lost, sessions ended, registrars restarted, updates

ASSUME TimeAssumption ==
  /\ Timeout \in Nat \ {0} /\ Mins \subseteq Nat /\ Slack \in Nat /\ Retry \in Nat \ {0}
  /\ MaxTries \in Nat /\ MaxTroubles \in Nat

VARIABLES
  min,      \* m_iMinRegisterTimeout
  info,     \* the CSipServerInfo in m_clsRegisterList, or Nil
  regs,     \* the REGISTER of each slot, or Nil
  binding,  \* what gclsUserMap has of the user, or Nil
  agent,    \* "up", "leaving" (in Stop), "stopped"
  tries,    \* how often Stop has looked
  troubles, \* how much has gone wrong
  doubts    \* history: "deleted" if the registrar lost the user by itself, "astray" if a
            \* message was lost, or a response taken for another's

registerVars == <<min, info, regs, binding, agent, tries, troubles, doubts>>

Nil == [none |-> TRUE]
Longest == CHOOSE t \in Mins \cup {Timeout} : \A u \in Mins \cup {Timeout} : u <= t
LoginAge == Longest \div 2 + 1
Older(age, most) == IF age = most THEN age ELSE age + 1

-----------------------------------------------------------------------------
(* CSipServerInfo.  sent and answered: m_iSendTime and m_iResponseTime are *)
(* not 0; wait: ticks to m_iNextSendTime.                                  *)

NewInfo ==
  [login |-> FALSE, age |-> 0, sent |-> FALSE, answered |-> FALSE, timeout |-> Timeout,
   auth |-> FALSE, delete |-> FALSE, wait |-> 0]

ClearLogin(i) ==
  [i EXCEPT !.login = FALSE, !.age = 0, !.sent = FALSE, !.answered = FALSE]

\* A REGISTER with the credentials of a nonce the registrar knows, no longer knows, or
\* without.  stage: "sent", "done" (handled, the response under way), "lost", or "stray"
\* (on its way when the user agent no longer waits).
Register(i, auth) == [stage |-> "sent", expires |-> i.timeout, auth |-> auth, code |-> 0]

Free(k) == regs[k] = Nil
Underway(k) == regs[k] # Nil
AllFree == \A k \in Slots : Free(k)
Doubt(d) == doubts \cup d

RegisterInit ==
  /\ min \in Mins /\ info = Nil /\ binding = Nil
  /\ regs = [k \in Slots |-> Nil]
  /\ agent = "up" /\ tries = 0 /\ troubles = 0 /\ doubts = {}

-----------------------------------------------------------------------------
(* The application.                                                        *)

\* The response to a REGISTER of before will be taken for one of the new user's.
InsertRegisterInfo ==
  /\ agent = "up" /\ info = Nil /\ info' = NewInfo
  /\ doubts' = Doubt(IF AllFree THEN {} ELSE {"astray"})
  /\ UNCHANGED <<min, regs, binding, agent, tries, troubles>>

UpdateRegisterInfo ==
  /\ agent = "up" /\ info # Nil /\ info.timeout # Timeout
  /\ troubles < MaxTroubles /\ troubles' = troubles + 1
  /\ info' = [info EXCEPT !.timeout = Timeout]
  /\ doubts' = Doubt({"astray"})
  /\ UNCHANGED <<min, regs, binding, agent, tries>>

\* A logout that is asked for twice may never be sent: the second forgets the user.
\* A REGISTER that asks for a login is under way while the user is logged out.
Crossing == IF \E k \in Slots : Underway(k) /\ regs[k].expires > 0 THEN {"astray"} ELSE {}

DeleteRegisterInfo ==
  /\ agent = "up" /\ info # Nil
  /\ info' = IF info.timeout = 0 THEN Nil ELSE [info EXCEPT !.delete = TRUE, !.timeout = 0]
  /\ doubts' = Doubt(IF info.timeout = 0 THEN {"astray"} ELSE Crossing)
  /\ UNCHANGED <<min, regs, binding, agent, tries, troubles>>

-----------------------------------------------------------------------------
(* The register thread.                                                    *)

\* A login is due, or its renewal, or a logout.
LoginDue == ~info.login /\ ~info.sent /\ info.wait = 0
RenewalDue ==
  info.login /\ ((2 * info.age > info.timeout /\ info.answered) \/ info.timeout = 0)

SipRegisterThread ==
  /\ info # Nil
  /\ LoginDue \/ RenewalDue
  /\ \E k \in Slots :
       /\ Free(k) /\ \A j \in Slots : Free(j) => k <= j
       /\ regs' = [regs EXCEPT ![k] = Register(info, "none")]
  /\ info' = [info EXCEPT !.sent = TRUE, !.answered = FALSE, !.auth = FALSE]
  /\ UNCHANGED <<min, binding, agent, tries, troubles, doubts>>

-----------------------------------------------------------------------------
(* RecvRegisterResponse.                                                   *)

\* 200: the answer to a logout when m_iLoginTimeout is 0 by now, else to a login.
LoggedIn(i) ==
  IF i.timeout = 0 THEN ClearLogin(i)
  ELSE [i EXCEPT !.login = TRUE, !.age = 0, !.answered = TRUE]

Erased(i) == i.timeout = 0 /\ i.delete

Failed_NoRetry(i) == [i EXCEPT !.login = FALSE, !.wait = Retry]

\* CLEAR_LOGIN.
Failed(i) == [ClearLogin(i) EXCEPT !.wait = Retry]

\* The response is matched to the registration, whichever REGISTER it answers.
RecvRegisterResponse(k, code, rest) ==
  \/ /\ info = Nil
     /\ regs' = [regs EXCEPT ![k] = rest] /\ UNCHANGED info
  \/ /\ info # Nil
     /\ CASE code = 200 ->
               /\ info' = IF Erased(info) THEN Nil ELSE LoggedIn(info)
               /\ regs' = [regs EXCEPT ![k] = rest]
          [] code = 401 /\ ~info.auth ->
               /\ info' = [info EXCEPT !.auth = TRUE]
               /\ regs' = [regs EXCEPT ![k] = Register(info, regs[k].auth)]
          [] code = 423 ->
               /\ info' = [info EXCEPT !.timeout = min, !.auth = FALSE]
               /\ regs' = [regs EXCEPT ![k] = Register(info', "none")]
          [] OTHER ->
               /\ info' = Failed(info)
               /\ regs' = [regs EXCEPT ![k] = rest]

\* What may have gone wrong when the user agent takes that response.
Misread(k, code) ==
  IF info = Nil THEN {}
  ELSE CASE code = 200 -> IF (info.timeout = 0) # (regs[k].expires = 0) THEN {"astray"} ELSE {}
         [] code = 401 -> IF info.auth THEN {"astray"} ELSE {}
         [] code = 423 -> IF info.timeout = 0 THEN {"astray"} ELSE {}
         [] OTHER -> {"astray"}

Answered(k) ==
  /\ Underway(k) /\ regs[k].stage = "done"
  /\ RecvRegisterResponse(k, regs[k].code, Nil)
  /\ doubts' = Doubt(Misread(k, regs[k].code))
  /\ UNCHANGED <<min, binding, agent, tries, troubles>>

\* The stack made a 408, of a REGISTER or response that was lost or is late.
RegisterUnanswered(k) ==
  /\ Underway(k)
  /\ \/ regs[k].stage = "lost" /\ UNCHANGED troubles /\ RecvRegisterResponse(k, 408, Nil)
     \/ /\ regs[k].stage = "sent" /\ troubles < MaxTroubles /\ troubles' = troubles + 1
        /\ RecvRegisterResponse(k, 408, [regs[k] EXCEPT !.stage = "stray"])
  /\ doubts' = Doubt({"astray"})
  /\ UNCHANGED <<min, binding, agent, tries>>

\* TcpSessionEnd: the connection to the registrar was lost.
TcpSessionEnd ==
  /\ info # Nil
  /\ troubles < MaxTroubles /\ troubles' = troubles + 1
  /\ info' = ClearLogin(info) /\ doubts' = Doubt({"astray"})
  /\ UNCHANGED <<min, regs, binding, agent, tries>>

Lose(k) ==
  /\ Underway(k) /\ regs[k].stage \in {"sent", "done", "stray"}
  /\ troubles < MaxTroubles /\ troubles' = troubles + 1
  /\ regs' = [regs EXCEPT ![k] = IF @.stage = "stray" THEN Nil
                                  ELSE [@ EXCEPT !.stage = "lost", !.code = 0, !.auth = "none"]]
  /\ doubts' = Doubt({"astray"})
  /\ UNCHANGED <<min, info, binding, agent, tries>>

-----------------------------------------------------------------------------
(* The registrar.                                                          *)

\* RecvRequestRegister: the response to a REGISTER.
RegistrarResponse(r) ==
  IF r.expires # 0 /\ r.expires < min THEN 423
  ELSE IF r.auth # "good" THEN 401 ELSE 200

Inserted_NotKnown(r) == binding

\* CUserMap::Insert keeps the time and expiry of a user it knows.
Inserted(r) ==
  IF binding = Nil THEN [age |-> 0, expires |-> r.expires] ELSE binding

Deleted_Kept(r) == binding

Deleted(r) == Nil

\* A 401 brings the nonce of the next REGISTER.
Handled(r) ==
  IF r.stage = "stray" THEN Nil
  ELSE [r EXCEPT !.stage = "done", !.code = RegistrarResponse(r),
                 !.auth = IF RegistrarResponse(r) = 401 THEN "good" ELSE "none"]

RecvRequestRegister(k) ==
  /\ Underway(k) /\ regs[k].stage \in {"sent", "stray"}
  /\ binding' = IF RegistrarResponse(regs[k]) # 200 THEN binding
                ELSE IF regs[k].expires = 0 THEN Deleted(regs[k]) ELSE Inserted(regs[k])
  /\ regs' = [regs EXCEPT ![k] = Handled(regs[k])]
  /\ UNCHANGED <<min, info, agent, tries, troubles, doubts>>

\* CNonceMap::DeleteTimeout, after 10 s: what was made with older nonces is refused.
NonceTimeout ==
  /\ \E k \in Slots : Underway(k) /\ regs[k].auth = "good"
  /\ troubles < MaxTroubles /\ troubles' = troubles + 1
  /\ regs' = [k \in Slots |->
                IF Underway(k) /\ regs[k].auth = "good" THEN [regs[k] EXCEPT !.auth = "old"]
                ELSE regs[k]]
  /\ UNCHANGED <<min, info, binding, agent, tries, doubts>>

\* CUserMap::DeleteTimeout.
Expired(b) == b.age > b.expires + Slack

DeleteTimeout ==
  /\ binding # Nil /\ Expired(binding)
  /\ binding' = Nil /\ doubts' = Doubt({"deleted"})
  /\ UNCHANGED <<min, info, regs, agent, tries, troubles>>

\* KSipServer keeps its users in memory only.
Restart ==
  /\ binding # Nil /\ troubles < MaxTroubles /\ troubles' = troubles + 1
  /\ binding' = Nil /\ doubts' = Doubt({"deleted"})
  /\ regs' = [k \in Slots |->
                IF Underway(k) /\ regs[k].auth = "good" THEN [regs[k] EXCEPT !.auth = "old"]
                ELSE regs[k]]
  /\ UNCHANGED <<min, info, agent, tries>>

-----------------------------------------------------------------------------
(* Stop.                                                                   *)

\* DeRegister.
Stop ==
  /\ agent = "up" /\ agent' = "leaving"
  /\ info' = IF info = Nil THEN Nil ELSE [info EXCEPT !.delete = TRUE, !.timeout = 0]
  /\ doubts' = Doubt(Crossing)
  /\ UNCHANGED <<min, regs, binding, tries, troubles>>

LoggedOut == info # Nil => ~info.login

\* It looks whether the user is logged out, MaxTries times at most.
LookAgain ==
  /\ agent = "leaving" /\ ~LoggedOut /\ tries < MaxTries /\ tries' = tries + 1
  /\ UNCHANGED <<min, info, regs, binding, agent, troubles, doubts>>

\* Then the stack and the register thread are stopped and the users forgotten; what is on
\* its way may still arrive.
GoesOn == LoggedOut \/ tries = MaxTries

StopStack ==
  /\ agent = "leaving" /\ GoesOn /\ agent' = "stopped" /\ info' = Nil
  /\ regs' = [k \in Slots |->
                IF Underway(k) /\ regs[k].stage \in {"sent", "stray"}
                THEN [regs[k] EXCEPT !.stage = "stray"] ELSE Nil]
  /\ doubts' = Doubt(IF LoggedOut THEN {} ELSE {"astray"})
  /\ UNCHANGED <<min, binding, tries, troubles>>

-----------------------------------------------------------------------------

Tick ==
  /\ info' = IF info = Nil THEN Nil
             ELSE [info EXCEPT !.age = IF info.login THEN Older(@, LoginAge) ELSE @,
                               !.wait = IF @ = 0 THEN 0 ELSE @ - 1]
  /\ binding' = IF binding = Nil THEN Nil
                ELSE [binding EXCEPT !.age = Older(@, binding.expires + Slack + 1)]
  /\ <<info', binding'>> # <<info, binding>>
  /\ UNCHANGED <<min, regs, agent, tries, troubles, doubts>>

Registering ==
  \/ SipRegisterThread
  \/ \E k \in Slots : Answered(k) \/ RecvRequestRegister(k)
  \/ \E k \in Slots : Underway(k) /\ regs[k].stage = "lost" /\ RegisterUnanswered(k)

RegisterNext ==
  \/ InsertRegisterInfo \/ UpdateRegisterInfo \/ DeleteRegisterInfo
  \/ Registering \/ Tick \/ LookAgain \/ StopStack
  \/ \E k \in Slots : RegisterUnanswered(k) \/ Lose(k)
  \/ TcpSessionEnd \/ NonceTimeout \/ DeleteTimeout \/ Restart \/ Stop

RegisterSpec == RegisterInit /\ [][RegisterNext]_registerVars

\* The threads go on, the network delivers, and time passes.
FairRegisterSpec ==
  /\ RegisterSpec
  /\ WF_registerVars(Registering) /\ WF_registerVars(LookAgain \/ StopStack)
  /\ WF_registerVars(Tick)

-----------------------------------------------------------------------------
(* Properties.                                                             *)

Expiries == Mins \cup {0, Timeout}
Stages == {"sent", "done", "lost", "stray"}
Auths == {"none", "good", "old"}
Codes == {0, 200, 401, 423}

Info == [login : BOOLEAN, age : Nat, sent : BOOLEAN, answered : BOOLEAN,
         timeout : Expiries, auth : BOOLEAN, delete : BOOLEAN, wait : 0 .. Retry]
Request == [stage : Stages, expires : Expiries, auth : Auths, code : Codes]
Binding == [age : Nat, expires : Expiries \ {0}]

\* The shape of the state.
RegisterTypeOK ==
  /\ min \in Mins
  /\ info \in {Nil} \cup Info
  /\ regs \in [Slots -> {Nil} \cup Request]
  /\ binding \in {Nil} \cup Binding
  /\ agent \in {"up", "leaving", "stopped"}
  /\ tries \in 0 .. MaxTries /\ troubles \in 0 .. MaxTroubles
  /\ doubts \subseteq {"deleted", "astray"}

\* A user who is logged in is known to the registrar, unless the registrar lost him, messages
\* were lost, or a response was taken for the answer to another REGISTER than its own.
LoggedInIsKnown ==
  (info # Nil /\ info.login /\ AllFree /\ doubts = {}) => binding # Nil

\* Every variable has its type, and who is logged in is known.
RegisterConsistent == RegisterTypeOK /\ LoggedInIsKnown

\* A user agent that was stopped leaves nothing behind at the registrar, unless it
\* was stopped during a REGISTER, gave up waiting, was refused, or messages were lost.
StopLeavesNothing ==
  (agent = "stopped" /\ "astray" \notin doubts) => binding = Nil

\* A user who is not logged in will be, as long as he is to be logged in.
LoginAgain ==
  (info # Nil /\ ~info.login /\ info.timeout # 0)
    ~> (info # Nil => info.login \/ info.timeout = 0)
=============================================================================
