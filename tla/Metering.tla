------------------------------ MODULE Metering ------------------------------
(***************************************************************************)
(* What one session cost, as far as the orchestrator can tell: the four    *)
(* places a token figure may come from (envelope.telemetry and the readers *)
(* of provider.py), and the charge the admission ledger makes of it        *)
(* (budget.ledger).  AuditLoop takes a session's figure as given; here it  *)
(* is made.                                                                *)
(*                                                                         *)
(* A usage object is abstracted to its total and whether its counts are    *)
(* possible ones; in a sidecar, also whether it names a model.  A stream   *)
(* is what the CLI writes to its stdout, with whatever the session manages *)
(* to write there: the parent reads lines, not writers.                    *)
(***************************************************************************)
EXTENDS Nothing, Integers

CONSTANTS Adapters,    \* telemetry_adapter: "none", "codex", "codex-stream"
          Reservation, \* tokens_per_session, by the operator's profile
          Totals       \* figures somebody may write down

ASSUME MeterAssumption == /\ Adapters \subseteq {"none", "codex", "codex-stream"}
                          /\ Reservation \in Nat \ {0} /\ Totals \subseteq Nat
                          /\ None \notin {"provider", "agent-reported", "log-parse"}

VARIABLES
  adapter,  \* the one the operator declared
  spent,    \* what the provider has counted for this session
  turns,    \* turn.completed lines in the log: whether any has a usage, their sum,
            \* and whether any is impossible
  said,     \* the last XCHECK_TELEMETRY line the session printed, or None
  used,     \* the last `tokens used` figure in the log, or None
  side,     \* the sidecar at this session's path, or None
  account,  \* the session's record once it is finished, or None
  vouched,  \* history: the totals the provider has reported of this session
  heard,    \* history: the sum of what the CLI's own lines say
  blurred   \* history: does the stream say other than what the provider reported?

meterVars == <<adapter, spent, turns, said, used, side, account, vouched, heard, blurred>>

Usage == [total : Totals, legal : {TRUE}] \cup [total : {None}, legal : BOOLEAN]

(* A sidecar names a session, and may name the log it was taken from. *)
Sidecar(total, model, session, digest) ==
  [total |-> total, legal |-> TRUE, model |-> model, session |-> session, digest |-> digest]

streamed == adapter = "codex-stream"

-----------------------------------------------------------------------------
(* The session, its provider and the operator's wrapper. *)

(* A turn the provider answers.                                             *)
Answers(n) == /\ account = None /\ spent \in vouched \cup {0}
              /\ spent + n \in Totals
              /\ spent' = spent + n
              /\ vouched' = vouched \cup {spent + n}
              /\ UNCHANGED <<adapter, said, used, side, account>>

(* A stream carries its usage.                                              *)
TurnCompletes ==
  \E n \in Totals :
    /\ Answers(n)
    /\ IF streamed THEN /\ turns' = [turns EXCEPT !.sum = @ + n, !.any = TRUE]
                        /\ heard' = heard + n
                   ELSE UNCHANGED <<turns, heard>>
    /\ UNCHANGED blurred

(* Its line has a usage without counts, which is read as a turn of none; or  *)
(* no usage; or the session wrote into it.                                  *)
TurnUncounted ==
  /\ streamed /\ blurred' = TRUE
  /\ \E n \in Totals \ {0} : Answers(n)
  /\ \E any \in {TRUE, turns.any} : turns' = [turns EXCEPT !.any = any]
  /\ UNCHANGED heard

(* A turn the end of the session cuts short: it costs, and no answer comes. *)
TurnCut ==
  /\ account = None /\ spent \in vouched \cup {0}
  /\ \E n \in Totals \ {0} : spent + n \in Totals /\ spent' = spent + n
  /\ UNCHANGED <<adapter, turns, said, used, side, account, vouched, heard, blurred>>

(* A turn whose reported usage is impossible. *)
TurnUnbelievable ==
  /\ account = None /\ streamed
  /\ turns' = [turns EXCEPT !.spoiled = TRUE]
  /\ UNCHANGED <<adapter, spent, said, used, side, account, vouched, heard, blurred>>

(* The session writes a turn.completed line of its own to the CLI's stdout  *)
(* (the residual of write_stream_sidecar).                                  *)
WritesTurn ==
  /\ account = None /\ streamed /\ blurred' = TRUE
  /\ \/ \E n \in Totals : /\ turns.sum + n \in Totals
                          /\ turns' = [turns EXCEPT !.sum = @ + n, !.any = TRUE]
     \/ turns' = [turns EXCEPT !.spoiled = TRUE]
  /\ UNCHANGED <<adapter, spent, said, used, side, account, vouched, heard>>

(* The session prints: a usage line, or a phrase, its own or an older log's. *)
(* Of each the last is read: it is the one that is printed here.             *)
Prints ==
  /\ account = None
  /\ \/ said = None /\ said' \in Usage /\ UNCHANGED used
     \/ used = None /\ used' \in Totals /\ UNCHANGED said
  /\ UNCHANGED <<adapter, spent, turns, side, account, vouched, heard, blurred>>

(* The role command's wrapper writes the provider's answer down; or a file   *)
(* of another session is copied to this one's path.  The last to do so.  Not *)
(* the session itself: its path is told to none but the operator's command   *)
(* (envelope.py:438-447).                                                    *)
WritesSidecar ==
  /\ account = None /\ side = None
  /\ \E model \in BOOLEAN :
       \/ \E total \in vouched \cup {None}, session \in {"this", None}, digest \in {"this", None} :
            side' = Sidecar(total, model, session, digest)
       \/ \E total \in Totals, digest \in {"other", None} :
            side' = Sidecar(total, model, "other", digest)
  /\ UNCHANGED <<adapter, spent, turns, said, used, account, vouched, heard, blurred>>

-----------------------------------------------------------------------------
(* telemetry, when the session has ended. *)

(* stream_usage: one impossible turn spoils the sum; no turn is no figure,  *)
(* turns without counts are one of 0.                                       *)
stream_usage == IF ~turns.any \/ turns.spoiled THEN None
                ELSE Sidecar(turns.sum, FALSE, "this", "this")

(* write_stream_sidecar: the stream is the only channel of its adapter. *)
write_stream_sidecar == IF streamed THEN stream_usage ELSE side

(* Mutant: whose sidecar it is, is not asked. *)
BoundToAnyone(s) == s.legal /\ s.digest # "other"

(* sidecar_refusals *)
Bound(s) == s.legal /\ s.session = "this" /\ s.digest # "other"

(* read: a provider's figure needs the model that produced it, but for a stream. *)
read(s) == s.legal /\ (streamed \/ s.model)

(* The agent's line is not looked at beside a sidecar, nor under a stream.   *)
telemetry ==
  LET s      == write_stream_sidecar
      sided  == s # None /\ Bound(s)
      agent  == ~sided /\ ~streamed /\ said # None /\ said.legal
      source == CASE sided /\ read(s) /\ s.total # None -> "provider"
                  [] agent /\ said.total # None -> "agent-reported"
                  [] OTHER -> IF ~streamed /\ used # None THEN "log-parse" ELSE None
  IN [source |-> source,
      tokens |-> CASE source = "provider" -> s.total
                   [] source = "agent-reported" -> said.total
                   [] source = "log-parse" -> used
                   [] OTHER -> None]

(* finish *)
Finish ==
  /\ account = None
  /\ account' = telemetry
  /\ side' = write_stream_sidecar
  /\ UNCHANGED <<adapter, spent, turns, said, used, vouched, heard, blurred>>

(* ledger, of one finished session *)
Charge(a) == IF a.source = "provider" THEN a.tokens
             ELSE IF a.tokens # None /\ a.tokens > Reservation THEN a.tokens
             ELSE Reservation

MeterInit == /\ adapter \in Adapters
             /\ spent = 0 /\ turns = [any |-> FALSE, sum |-> 0, spoiled |-> FALSE]
             /\ said = None /\ used = None /\ side = None /\ account = None
             /\ vouched = {} /\ heard = 0 /\ blurred = FALSE

MeterTypeOK == /\ adapter \in Adapters /\ spent \in Nat /\ vouched \subseteq Nat
               /\ turns \in [any : BOOLEAN, sum : Nat, spoiled : BOOLEAN]
               /\ used \in Totals \cup {None} /\ said \in Usage \cup {None}
               /\ heard \in Nat /\ blurred \in BOOLEAN

-----------------------------------------------------------------------------
(* budget.py:313 "a figure the subject printed never LOWERS the charge", as  *)
(* far as it is kept: a session is charged less than its reservation only by *)
(* a figure that the provider reported of this very session, whatever else   *)
(* was printed, copied or left where the orchestrator looks.  Of a stream    *)
(* into which the session wrote lines of its own, or whose lines have no     *)
(* counts, it is at least the sum of what the CLI's own lines say.           *)
DiscountIsVouched ==
  account # None /\ Charge(account) < Reservation =>
     Charge(account) \in vouched \/ (blurred /\ Charge(account) >= heard)

(* Not kept (provider.py:257 "NOT MEASURED, never zero"): a usage object     *)
(* without counts is a turn, and its session a measured one of no tokens.    *)
UnmeasuredIsNotZero ==
  account # None /\ account.source = "provider" /\ spent > 0 => account.tokens > 0

(* Not kept (budget.py:311 "finished or abandoned without them ... its       *)
(* reservation"): a stream that ends inside a turn is charged for the turns  *)
(* before it, although the last one cost what nobody has counted.            *)
ChargeCoversSpend ==
  account # None => Charge(account) >= spent \/ Charge(account) >= Reservation
=============================================================================
