------------------------------ MODULE SimHttp ------------------------------
(***************************************************************************)
(* HTTP over the A76XX modem: Sim4GModule::sendPayload and httpGet, one AT *)
(* command after another over a UART.                                      *)
(*                                                                         *)
(* The modem obeys its commands in the order they come and answers each in *)
(* tokens: "OK", "ERROR", "+CGACT:" ...  A token is on the wire, then in   *)
(* the UART buffer.  readLineSim returns a chunk, all that has come in     *)
(* its window; waitForToken takes the chunk that holds the token it looks  *)
(* for, and drops the others whole.  When answers may be slow, a wait may  *)
(* end before its answer comes, and the answer is found by a later wait.   *)
(*                                                                         *)
(* The modem is external and modelled as the driver's comments have it:    *)
(* HTTPINIT is an error while the HTTP service is initialized, HTTPTERM    *)
(* ends the session and what it was doing, HTTPACTION answers OK at once   *)
(* and +HTTPACTION when the server has answered, after DOWNLOAD whatever   *)
(* comes is data.                                                          *)
(***************************************************************************)
EXTENDS Naturals, Sequences, SequencesExt

CONSTANTS
  MaxCalls,       (* bound: calls between power on and power off           *)
  SlowModem,      (* may the modem take longer than a wait?                *)
  MaxBehind,      (* bound: commands it has yet to take up when one ends   *)
  CutTokens,      (* may a token straddle the end of a readLineSim window? *)
  NetworkFaults   (* may the network or the server fail?                   *)

ASSUME SimHttpAssumption ==
  /\ MaxCalls \in Nat
  /\ SlowModem \in BOOLEAN /\ MaxBehind \in Nat /\ CutTokens \in BOOLEAN /\ NetworkFaults \in BOOLEAN

Ops == {"POST", "GET"}

\* Call n carries payload n, or asks for URL n.
Call == [op : Ops, n : 1 .. MaxCalls]
Nothing == 0        (* no URL, no data, no response body                   *)
Garbage == MaxCalls + 1

Steps == {"term", "cgact", "activate", "cgpaddr", "init", "url", "content", "data",
          "payload", "action", "read", "readRest", "cleanup"}

\* What waitForToken looks for, where a step is a command and a wait.
Expect == [cgact |-> "+CGACT", activate |-> "OK", cgpaddr |-> "+CGPADDR", init |-> "OK",
           url |-> "OK", content |-> "OK", data |-> "DOWNLOAD", payload |-> "OK",
           action |-> "+HTTPACTION", read |-> "+HTTPREAD"]

Tok(kind, arg) == [kind |-> kind, arg |-> arg]
OK == Tok("OK", Nothing)
ERROR == Tok("ERROR", Nothing)

\* What the server may answer: success with a body, success without one, failure.
Statuses == {200, 204, 500}
Is2xx(status) == status \in 200 .. 299

Body(n) == <<Tok("BODY1", n), Tok("BODY2", n)>>

VARIABLES
  step, waiting,  (* the driver: its step, and is the command sent?        *)
  call,           (* the call under way                                    *)
  calls,          (* bound and history: calls made                         *)
  inited,         (* http_inited_                                          *)
  raw, response,  (* httpGet's rawRead and response                        *)
  result,         (* what the call will return                             *)
  rx,             (* the UART receive buffer                               *)
  wire,           (* tokens on their way to it                             *)
  inbox,          (* commands on their way to the modem                    *)
  session,        (* the modem's HTTP service                              *)
  mode,           (* the modem takes commands, or data                     *)
  pdp,            (* the PDP context is active                             *)
  server,         (* history: payloads the server accepted                 *)
  done,           (* history: the calls that returned, with their results  *)
  trouble,        (* history: since power on, an answer came late, was cut *)
                  (* in two, or was not the one hoped for                  *)
  behind          (* history: since power on, a wait ended before the      *)
                  (* modem had taken up the command                        *)

driver == <<step, waiting, call, calls, inited, raw, response, result, done, behind>>
modem == <<session, mode, pdp, server>>
httpVars == <<step, waiting, call, calls, inited, raw, response, result, done, rx, wire,
              inbox, session, mode, pdp, server, trouble, behind>>

Closed == [open |-> FALSE, url |-> Nothing, data |-> Nothing, pending |-> "none",
           body |-> Nothing]

NoCall == [op |-> "POST", n |-> 0]

\* The OK of checkInternet's last command may still be on its way.
Leftover == {<<>>, <<OK>>}

\* After powerOn and checkInternet.
HttpInit ==
  /\ step = "idle" /\ waiting = FALSE /\ call = NoCall /\ calls = 0
  /\ inited = FALSE /\ raw = <<>> /\ response = <<>> /\ result = FALSE
  /\ rx = <<>> /\ wire \in Leftover /\ inbox = <<>>
  /\ session = Closed /\ mode = "command" /\ pdp = TRUE
  /\ server = {} /\ done = {} /\ trouble = FALSE /\ behind = FALSE

-----------------------------------------------------------------------------
(* The UART and the modem.                                                 *)

\* Nothing is under way anywhere but in the driver.
Quiet == rx = <<>> /\ wire = <<>> /\ inbox = <<>> /\ session.pending = "none" /\ mode = "command"

Arrive ==
  /\ wire # <<>>
  /\ rx' = Append(rx, Head(wire)) /\ wire' = Tail(wire)
  /\ UNCHANGED <<driver, inbox, modem, trouble>>

\* httpGet reads HTTPREAD's answer itself.
InWaitForToken == waiting /\ step \in DOMAIN Expect /\ ~(step = "read" /\ call.op = "GET")

\* The window of a waitForToken ends inside a token: neither half is recognised.
Cut ==
  /\ CutTokens /\ wire # <<>> /\ InWaitForToken
  /\ wire' = Tail(wire)
  /\ trouble' = TRUE
  /\ UNCHANGED <<driver, rx, inbox, modem>>

Answer(tokens) == wire' = wire \o tokens
InboxIs(cmd) == mode = "command" /\ inbox # <<>> /\ Head(inbox).cmd = cmd
Obeyed == inbox # <<>> /\ inbox' = Tail(inbox) /\ UNCHANGED <<driver, rx, trouble>>

ModemTerm ==
  /\ InboxIs("term") /\ Obeyed
  /\ Answer(<<IF session.open THEN OK ELSE ERROR>>)
  /\ session' = Closed
  /\ UNCHANGED <<mode, pdp, server>>

ModemPdp ==
  /\ Obeyed
  /\ \/ /\ InboxIs("cgact")
        /\ Answer(<<Tok("+CGACT", IF pdp THEN 1 ELSE 0), OK>>)
        /\ UNCHANGED pdp
     \/ /\ InboxIs("cgpaddr")
        /\ Answer(<<Tok("+CGPADDR", Nothing), OK>>)
        /\ UNCHANGED pdp
     \/ /\ InboxIs("activate")
        /\ \/ Answer(<<OK>>) /\ pdp' = TRUE
           \/ NetworkFaults /\ Answer(<<ERROR>>) /\ UNCHANGED pdp
  /\ UNCHANGED <<session, mode, server>>

ModemInit ==
  /\ InboxIs("init") /\ Obeyed
  /\ Answer(<<IF session.open THEN ERROR ELSE OK>>)
  /\ session' = [session EXCEPT !.open = TRUE]
  /\ UNCHANGED <<mode, pdp, server>>

ModemPara ==
  /\ InboxIs("url") \/ InboxIs("content")
  /\ Obeyed
  /\ Answer(<<IF session.open THEN OK ELSE ERROR>>)
  /\ session' = IF session.open /\ Head(inbox).cmd = "url"
                THEN [session EXCEPT !.url = Head(inbox).arg] ELSE session
  /\ UNCHANGED <<mode, pdp, server>>

Ready == session.open /\ session.pending = "none"

ModemData ==
  /\ InboxIs("data") /\ Obeyed
  /\ Answer(<<IF Ready THEN Tok("DOWNLOAD", Nothing) ELSE ERROR>>)
  /\ mode' = IF Ready THEN "data" ELSE mode
  /\ session' = IF Ready THEN [session EXCEPT !.data = Nothing] ELSE session
  /\ UNCHANGED <<pdp, server>>

\* In data mode a command is data too, and is never answered.
ModemTakesData ==
  /\ mode = "data" /\ inbox # <<>> /\ Obeyed
  /\ IF Head(inbox).cmd = "payload"
     THEN /\ session' = [session EXCEPT !.data = IF @ = Nothing THEN Head(inbox).arg ELSE Garbage]
          /\ mode' = "command"
          /\ Answer(<<OK>>)
     ELSE session' = [session EXCEPT !.data = Garbage] /\ UNCHANGED <<mode, wire>>
  /\ UNCHANGED <<pdp, server>>

\* Its timer is as long as the driver's wait for DOWNLOAD, and started later: a driver that
\* still waits writes in time.
ModemDataTimeout ==
  /\ mode = "data" /\ inbox = <<>>
  /\ step \notin {"data", "payload"}
  /\ mode' = "command"
  /\ session' = [session EXCEPT !.data = Garbage]
  /\ \E t \in {OK, ERROR} : Answer(<<t>>)
  /\ UNCHANGED <<driver, rx, inbox, pdp, server, trouble>>

ModemAction ==
  /\ InboxIs("action") /\ Obeyed
  /\ Answer(<<IF Ready THEN OK ELSE ERROR>>)
  /\ session' = IF Ready THEN [session EXCEPT !.pending = Head(inbox).arg] ELSE session
  /\ UNCHANGED <<mode, pdp, server>>

\* The server answers, or the modem gives up.
ActionEnds ==
  /\ session.pending # "none"
  /\ \E status \in Statuses :
       /\ IF ~pdp THEN status = 500
          ELSE NetworkFaults \/ status = 200 \/ (status = 204 /\ session.pending = "POST")
       /\ session' = [session EXCEPT !.pending = "none",
                                     !.body = IF status = 200 THEN session.url ELSE Nothing]
       /\ Answer(<<Tok("+HTTPACTION", status)>>)
       /\ IF session.pending = "POST" /\ Is2xx(status)
          THEN server' = server \cup {session.data}
          ELSE UNCHANGED server
       /\ trouble' = (trouble \/ status = 500 \/ (status = 204 /\ session.pending = "GET"))
  /\ UNCHANGED <<driver, rx, inbox, mode, pdp>>

ModemRead ==
  /\ InboxIs("read") /\ Obeyed
  /\ Answer(IF session.open /\ session.body # Nothing
            THEN <<Tok("+HTTPREAD", Nothing)>> \o Body(session.body) \o <<OK>>
            ELSE <<ERROR>>)
  /\ UNCHANGED modem

PdpLost ==
  /\ NetworkFaults /\ pdp
  /\ pdp' = FALSE /\ trouble' = TRUE
  /\ UNCHANGED <<driver, rx, wire, inbox, session, mode, server>>

Modem == \/ Arrive \/ ModemTerm \/ ModemPdp \/ ModemInit \/ ModemPara \/ ModemData
         \/ ModemTakesData \/ ModemAction \/ ActionEnds \/ ModemRead

-----------------------------------------------------------------------------
(* The driver.                                                             *)

GoTo(s) == step' = s /\ waiting' = FALSE

\* sendPayload or httpGet is called; both go through httpInitAndSetBearer.
Begin ==
  /\ step = "idle" /\ calls < MaxCalls
  /\ \E op \in Ops : call' = [op |-> op, n |-> calls + 1]
  /\ calls' = calls + 1
  /\ GoTo("term")
  /\ raw' = <<>> /\ response' = <<>> /\ result' = FALSE
  /\ UNCHANGED <<inited, done, rx, wire, inbox, modem, trouble, behind>>

Command ==
  [cmd |-> IF step = "cleanup" THEN "term" ELSE step,
   arg |-> IF step = "action" THEN call.op ELSE call.n]

\* httpTermSafe does nothing unless a session was opened.
NoTerm == step \in {"term", "cleanup"} /\ ~inited

AfterTerm == IF step = "term" THEN "cgact" ELSE "return"

SkipTerm ==
  /\ ~waiting /\ NoTerm
  /\ GoTo(AfterTerm)
  /\ UNCHANGED <<call, calls, inited, raw, response, result, done, rx, wire, inbox, modem, trouble, behind>>

\* flushSim, then the command.  The payload follows DOWNLOAD with no flush.
SendCommand ==
  /\ step \in Steps \ {"readRest"} /\ ~waiting /\ ~NoTerm
  /\ inbox' = Append(inbox, Command)
  /\ rx' = IF step = "payload" THEN rx ELSE <<>>
  /\ waiting' = TRUE
  /\ UNCHANGED <<step, call, calls, inited, raw, response, result, done, wire, modem, trouble, behind>>

Has(s, kind) == \E i \in DOMAIN s : s[i].kind = kind

\* The first token of a kind.
First(s, kind) == s[SelectInSeq(s, LAMBDA t : t.kind = kind)]

\* Mutated: HTTPINIT's ERROR is taken to say that the service is initialized already.
Failed_InitGoesOn ==
  IF step = "cgact" THEN "activate"
  ELSE IF step = "cgpaddr" THEN "init"
  ELSE IF step = "init" THEN "url"
  ELSE IF step = "activate" THEN "return"
  ELSE "cleanup"

\* Every failure after HTTPINIT cleans up; the ones up to it return at once.
Failed ==
  IF step = "cgact" THEN "activate"
  ELSE IF step = "cgpaddr" THEN "init"
  ELSE IF step \in {"activate", "init"} THEN "return"
  ELSE "cleanup"

\* After +HTTPACTION.
AfterAction(status) ==
  IF status = 200 THEN "read" ELSE "cleanup"

After(token) ==
  CASE step = "cgact" -> IF token.arg = 1 THEN "cgpaddr" ELSE "activate"
    [] step = "activate" -> "cgpaddr"
    [] step = "cgpaddr" -> "init"
    [] step = "init" -> "url"
    [] step = "url" -> IF call.op = "POST" THEN "content" ELSE "action"
    [] step = "content" -> "data"
    [] step = "data" -> "payload"
    [] step = "payload" -> "action"
    [] step = "action" -> AfterAction(token.arg)
    [] step = "read" -> "readRest"

\* http_inited_ = true after HTTPINIT.
Opened == inited \/ step = "init"

\* Mutated: any +HTTPACTION will do.
Accepts_Any(token) == call.op = "POST"

\* sendPayload returns is2xx(status).
Accepts(token) == call.op = "POST" /\ Is2xx(token.arg)

\* The chunk holds the token.
Found ==
  /\ InWaitForToken /\ Has(rx, Expect[step])
  /\ LET token == First(rx, Expect[step])
     IN /\ GoTo(After(token))
        /\ inited' = Opened
        /\ result' = IF step = "action" THEN Accepts(token) ELSE result
  /\ rx' = <<>>
  /\ UNCHANGED <<call, calls, raw, response, done, wire, inbox, modem, trouble, behind>>

\* The chunk holds only other tokens.
Skipped ==
  /\ InWaitForToken /\ rx # <<>>
  /\ ~Has(rx, Expect[step]) /\ ~Has(rx, "ERROR")
  /\ rx' = <<>>
  /\ UNCHANGED <<driver, wire, inbox, modem, trouble>>

FoundError ==
  /\ InWaitForToken
  /\ ~Has(rx, Expect[step]) /\ Has(rx, "ERROR")
  /\ GoTo(Failed)
  /\ rx' = <<>>
  /\ UNCHANGED <<call, calls, inited, raw, response, result, done, wire, inbox, modem, trouble, behind>>

\* A wait that ends with nothing read.
TimedOut == rx = <<>> /\ wire = <<>> /\ (Quiet \/ (SlowModem /\ Len(inbox) <= MaxBehind))

\* The answer, if there is one, comes after its wait.
NoteLate ==
  /\ trouble' = (trouble \/ (rx = <<>> /\ ~Quiet))
  /\ behind' = (behind \/ (rx = <<>> /\ inbox # <<>>))

TimeOut ==
  /\ InWaitForToken /\ TimedOut
  /\ GoTo(Failed)
  /\ NoteLate
  /\ UNCHANGED <<call, calls, inited, raw, response, result, done, rx, wire, inbox, modem>>

\* sendPayload only logs the response: it reads to OK, ERROR or its timeout.
ReadRest ==
  /\ step = "readRest"
  /\ rx # <<>> \/ TimedOut
  /\ rx' = <<>>
  /\ IF rx = <<>> \/ Has(rx, "OK") \/ Has(rx, "ERROR") THEN GoTo("cleanup")
     ELSE UNCHANGED <<step, waiting>>
  /\ NoteLate
  /\ UNCHANGED <<call, calls, inited, raw, response, result, done, wire, inbox, modem>>

\* What stands between the header and the last OK, or all that follows the header.
Parsed(s) ==
  LET header == SelectInSeq(s, LAMBDA t : t.kind = "+HTTPREAD")
      last == SelectLastInSeq(s, LAMBDA t : t.kind = "OK")
  IN IF header = 0 THEN <<>>
     ELSE IF last > header THEN SubSeq(s, header + 1, last - 1)
     ELSE SubSeq(s, header + 1, Len(s))

\* Mutated: the header is waited for first, and its chunk dropped.
GetReads_HeaderFirst ==
  /\ step = "read" /\ waiting /\ call.op = "GET"
  /\ rx # <<>>
  /\ LET all == IF Has(rx, "+HTTPREAD") THEN <<First(rx, "+HTTPREAD")>> ELSE raw \o rx
     IN IF (Has(all, "+HTTPREAD") /\ Has(all, "OK")) \/ Has(all, "ERROR")
        THEN /\ GoTo("cleanup")
             /\ response' = Parsed(all) /\ result' = (Parsed(all) # <<>>)
             /\ raw' = <<>>
        ELSE raw' = all /\ UNCHANGED <<step, waiting, response, result>>
  /\ rx' = <<>>
  /\ UNCHANGED <<call, calls, inited, done, wire, inbox, modem, trouble, behind>>

\* rawRead grows by a chunk until it has the header and an OK, or an error.
GetReads ==
  /\ step = "read" /\ waiting /\ call.op = "GET"
  /\ rx # <<>>
  /\ LET all == raw \o rx
     IN IF (Has(all, "+HTTPREAD") /\ Has(all, "OK")) \/ Has(all, "ERROR")
        THEN /\ GoTo("cleanup")
             /\ response' = Parsed(all) /\ result' = (Parsed(all) # <<>>)
             /\ raw' = <<>>
        ELSE raw' = all /\ UNCHANGED <<step, waiting, response, result>>
  /\ rx' = <<>>
  /\ UNCHANGED <<call, calls, inited, done, wire, inbox, modem, trouble, behind>>

\* What has come by the end of the 5 seconds is the response.
GetReadEnds ==
  /\ step = "read" /\ waiting /\ call.op = "GET" /\ TimedOut
  /\ GoTo("cleanup")
  /\ response' = Parsed(raw) /\ result' = (Parsed(raw) # <<>>)
  /\ raw' = <<>>
  /\ NoteLate
  /\ UNCHANGED <<call, calls, inited, done, rx, wire, inbox, modem>>

\* httpTermSafe reads one chunk, if any comes, and takes the session for closed.
TermEnds ==
  /\ step \in {"term", "cleanup"} /\ waiting
  /\ rx # <<>> \/ TimedOut
  /\ rx' = <<>>
  /\ inited' = FALSE
  /\ GoTo(AfterTerm)
  /\ NoteLate
  /\ UNCHANGED <<call, calls, raw, response, result, done, wire, inbox, modem>>

Return ==
  /\ step = "return"
  /\ GoTo("idle")
  /\ done' = done \cup {[call |-> call, ok |-> result, response |-> response]}
  /\ UNCHANGED <<call, calls, inited, raw, response, result, rx, wire, inbox, modem, trouble, behind>>

\* powerOff, and powerOn and checkInternet again.
PowerCycle ==
  /\ step = "idle"
  /\ inited' = FALSE
  /\ rx' = <<>> /\ wire' \in Leftover /\ inbox' = <<>>
  /\ session' = Closed /\ mode' = "command" /\ pdp' = TRUE
  /\ trouble' = FALSE /\ behind' = FALSE
  /\ UNCHANGED <<step, waiting, call, calls, raw, response, result, server, done>>

Driver == \/ SkipTerm \/ SendCommand \/ Found \/ Skipped \/ FoundError \/ TimeOut \/ ReadRest
          \/ GetReads \/ GetReadEnds \/ TermEnds \/ Return

HttpNext == Begin \/ PowerCycle \/ Driver \/ Modem \/ Cut \/ ModemDataTimeout \/ PdpLost

HttpSpec == HttpInit /\ [][HttpNext]_httpVars

-----------------------------------------------------------------------------
(* Properties.                                                             *)

TokenKinds == {"OK", "ERROR", "+CGACT", "+CGPADDR", "DOWNLOAD", "+HTTPACTION", "+HTTPREAD",
               "BODY1", "BODY2"}
Token == [kind : TokenKinds, arg : 0 .. MaxCalls \cup Statuses]

\* Type invariant; and no call leaves http_inited_ set, nor another's bytes in rawRead.
HttpTypeOK ==
  /\ step \in Steps \cup {"idle", "return"} /\ waiting \in BOOLEAN
  /\ call \in Call \cup {NoCall} /\ calls \in 0 .. MaxCalls
  /\ step = "idle" => ~inited /\ raw = <<>>
  /\ inited \in BOOLEAN /\ result \in BOOLEAN
  /\ {rx[i] : i \in DOMAIN rx} \cup {wire[i] : i \in DOMAIN wire}
       \cup {raw[i] : i \in DOMAIN raw} \cup {response[i] : i \in DOMAIN response} \subseteq Token
  /\ session \in [open : BOOLEAN, url : 0 .. MaxCalls, data : 0 .. Garbage,
                  pending : Ops \cup {"none"}, body : 0 .. MaxCalls]
  /\ mode \in {"command", "data"} /\ pdp \in BOOLEAN
  /\ server \subseteq 0 .. Garbage
  /\ trouble \in BOOLEAN /\ behind \in BOOLEAN

\* sync_task drops a sample from flash when sendPayload returns true: the server has accepted
\* this very payload, whatever answers of earlier commands and calls were still coming.
PostDelivered == \A d \in done : d.ok /\ d.call.op = "POST" => d.call.n \in server

\* The version, the time or the device's data that httpGet returns is what this URL's server
\* sent, cut short at worst, and never the answer to an earlier call.
GetOwnBody ==
  \A d \in done : d.ok /\ d.call.op = "GET" => d.response # <<>> /\ IsPrefix(d.response, Body(d.call.n))

\* While the modem answers in time and the server as it should, no call fails, however the
\* tokens fall into chunks and whatever went wrong before the modem was last powered on: "A76XX
\* can send OK and +HTTPACTION in the same UART chunk" (sim4g_module.cpp:773).
HealthyCallsSucceed == step = "return" /\ ~trouble => result

=============================================================================
