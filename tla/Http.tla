-------------------------------- MODULE Http --------------------------------
(***************************************************************************)
(* HTTP and HTTPS checks (healthcheck_http.cpp): a query is sent, what the *)
(* server says until it closes the connection is kept, and the code in its *)
(* first line is the result.  The two differ in the bufferevent only.      *)
(*                                                                         *)
(* An answer is a sequence of words, single characters between them being  *)
(* words of their own: "SP" a space, "CR" and "LF" the line end.  Of what  *)
(* comes after the first line only that it comes is kept.  The timeout of  *)
(* a bufferevent starts anew with everything that is read.                 *)
(***************************************************************************)
EXTENDS CheckRun, Functions, Sequences

CONSTANTS
  ok_codes, drain_codes,  \* hc_ok_codes and hc_drain_codes
  Answers                 \* what the servers may say, up to the first line end

(* Answers are texts, sequences of words; a server that says nothing has   *)
(* an answer of which nothing comes.                                       *)
ASSUME HttpAssumption == Answers # {} /\ \A a \in Answers : a \in Seq(Range(a))

VARIABLES
  http_bev,   \* checks whose bev is not NULL
  reply,      \* what each check has read since its run started
  answer,     \* what its server says in this run ...
  arrived,    \* ... and how much of it has come
  heard       \* checks that have read something since their timer last ran

httpVars == <<runVars, http_bev, reply, answer, arrived, heard>>

HttpTypeOK ==
  /\ http_bev \subseteq Checks /\ heard \subseteq http_bev
  /\ answer \in [Checks -> Answers]
  /\ arrived \in [Checks -> Nat]
  /\ reply \in [Checks -> Seq(UNION {Range(a) : a \in Answers})]

HttpInit ==
  /\ http_bev = {} /\ heard = {}
  /\ reply = [h \in Checks |-> <<>>]
  /\ answer = [h \in Checks |-> CHOOSE a \in Answers : TRUE]
  /\ arrived = [h \in Checks |-> 0]
-----------------------------------------------------------------------------
(* Healthcheck_http::end_check() *)
HttpEndCheck(h, result) ==
  /\ http_bev' = http_bev \ {h}
  /\ heard' = heard \ {h}
  /\ Finish(h, result)
  /\ UNCHANGED <<reply, answer, arrived>>

(* schedule_healthcheck(): connecting, a connect() that fails at once and  *)
(* whose error event ends the run before it returns, or no bufferevent.    *)
ScheduleHttpWith(h, read) ==
  /\ MayStart(h)
  /\ reply' = [reply EXCEPT ![h] = read]
  /\ arrived' = [arrived EXCEPT ![h] = 0]
  /\ \/ /\ http_bev' = http_bev \cup {h} /\ Begin(h)
        /\ \E a \in Answers : answer' = [answer EXCEPT ![h] = a]
     \/ Finish(h, "HC_FAIL") /\ UNCHANGED <<http_bev, answer>>
     \/ Throw(h) /\ UNCHANGED <<http_bev, answer>>
  /\ UNCHANGED heard

(* Mutant: what the last run has read is still there.                      *)
ScheduleHttp_Kept(h) == ScheduleHttpWith(h, reply[h])

ScheduleHttp(h) == ScheduleHttpWith(h, <<>>)

(* read_callback(): some of the first line, or of the rest.                *)
ReadCallback(h) ==
  /\ process = "running" /\ h \in http_bev
  /\ heard' = heard \cup {h}
  /\ \/ \E n \in arrived[h] + 1 .. Len(answer[h]) :
          /\ arrived' = [arrived EXCEPT ![h] = n]
          /\ reply' = [reply EXCEPT ![h] = @ \o SubSeq(answer[h], arrived[h] + 1, n)]
     \/ arrived[h] = Len(answer[h]) /\ UNCHANGED <<arrived, reply>>
  /\ UNCHANGED <<runVars, http_bev, answer>>

(* string::find() of a word, or 0.                                         *)
Find(text, word) ==
  IF word \in Range(text)
  THEN CHOOSE i \in DOMAIN text : text[i] = word /\ \A j \in 1 .. i - 1 : text[j] # word
  ELSE 0

(* getline(): all of it when there is no line end.                         *)
StatusLine(text) ==
  LET end == Find(text, "LF")
  IN  IF end = 0 THEN text ELSE SubSeq(text, 1, end - 1)

FromSpace(text) == SubSeq(text, Find(text, "SP") + 1, Len(text))

ToSpace(text) ==
  LET space == Find(text, "SP")
  IN  IF space = 0 THEN text ELSE SubSeq(text, 1, space - 1)

StatusCode(text) == ToSpace(FromSpace(StatusLine(text)))

HttpResult(text) ==
  IF \E c \in drain_codes : StatusCode(text) = <<c>> THEN "HC_DRAIN"
  ELSE IF \E c \in ok_codes : StatusCode(text) = <<c>> THEN "HC_PASS"
  ELSE "HC_FAIL"

(* event_callback() for all events but timeouts: the connection is open,   *)
(* it broke, or the server has closed it.                                  *)
HttpEvent(h, event) ==
  /\ process = "running" /\ h \in http_bev
  /\ \/ event = "CONNECTED" /\ UNCHANGED httpVars
     \/ event = "ERROR" /\ HttpEndCheck(h, "HC_FAIL")
     \/ event = "EOF" /\ HttpEndCheck(h, HttpResult(reply[h]))

(* The timer of the bufferevent: the run ends if nothing was read since it *)
(* was last set.                                                           *)
HttpTimer(h) ==
  /\ process = "running" /\ h \in http_bev
  /\ IF h \in heard
     THEN heard' = heard \ {h} /\ UNCHANGED <<runVars, http_bev, reply, answer, arrived>>
     ELSE HttpEndCheck(h, "HC_FAIL")

HttpStep(h) ==
  \/ ScheduleHttp(h) \/ ReadCallback(h) \/ HttpTimer(h)
  \/ \E event \in {"CONNECTED", "ERROR", "EOF"} : HttpEvent(h, event)
-----------------------------------------------------------------------------
(* Properties.                                                             *)

(* The code by the words of a text: between the first two spaces of its    *)
(* first line, or from its start when the line has no space.               *)
HasCode(text, c) ==
  \E i \in 1 .. Len(text) :
    /\ text[i] = c
    /\ \A j \in 1 .. i - 1 : text[j] # "LF" /\ (text[j] = "SP" <=> j = i - 1)
    /\ i = Len(text) \/ text[i + 1] \in {"LF"} \cup (IF i = 1 THEN {} ELSE {"SP"})

(* event_callback() lets a check pass, or drain, only for the code that    *)
(* the server has sent in this very run, in however many pieces it came,   *)
(* and never passes a code that is to drain.                               *)
HttpResultsAreTheirs ==
  [][\A h \in http_bev \ http_bev' :
       LET said == SubSeq(answer[h], 1, arrived[h])
       IN  /\ outcome'[h] = "HC_PASS" =>
                \E c \in ok_codes \ drain_codes : HasCode(said, c)
           /\ outcome'[h] = "HC_DRAIN" => \E c \in drain_codes : HasCode(said, c)]_httpVars
=============================================================================
