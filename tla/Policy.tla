-------------------------------- MODULE Policy --------------------------------
(***************************************************************************)
(* Whose word a dispatch runs under: the search for the operator profile   *)
(* and its location gate (policy.py), the merge with the configuration of  *)
(* the subject (util.load_conf), and the loop that reads both again before *)
(* every session (cli.main, require_policy, cmd_next).                     *)
(*                                                                         *)
(* A session may write whatever lies in the project: the configuration of  *)
(* the subject, and a profile somebody keeps there.                        *)
(***************************************************************************)
EXTENDS Nothing, Integers

CONSTANTS Texts,    \* what a profile may say
          Confs,    \* what audit/orchestrator.conf may say
          Setups    \* the paths of a machine, and the files it begins with

Sources == {"flag", "env", "xdg"}

VARIABLES
  reach,   \* "unset", "outside", "inside" the project, or "link": into it
  files,   \* the file at the end of each path: [by, text], or None
  conf,    \* the configuration of the subject
  loop,    \* the running process: None, or whether --policy was given
  cache,   \* _DIGESTS: the bytes this process last read of each path
  session  \* what the running session runs under, or None

policyVars == <<reach, files, conf, loop, cache, session>>

Texted  == [by : {"operator", "session"}, text : Texts]

ASSUME TextsAssumption ==
  /\ Texts \subseteq [ok : BOOLEAN, trust : {"trusted", "untrusted", "none"},
                     boundary : BOOLEAN, armed : BOOLEAN, cap : Nat, tells : BOOLEAN]
  /\ Confs \subseteq [ok : BOOLEAN, on : BOOLEAN, cap : Nat] /\ \E c \in Confs : c.ok
  /\ None \notin Texted \cup Sources \cup BOOLEAN

(* What lies outside the project when xcheck starts is the operator's. *)
ASSUME SetupsAssumption == \A m \in Setups :
  /\ m.reach \in [Sources -> {"unset", "outside", "inside", "link"}]
  /\ m.files \in [Sources -> Texted \cup {None}]
  /\ \A s \in Sources : m.files[s] # None /\ m.reach[s] \in {"unset", "outside"} =>
                        m.files[s].by = "operator"

PolicyTypeOK ==
  /\ reach \in [Sources -> {"unset", "outside", "inside", "link"}]
  /\ files \in [Sources -> Texted \cup {None}]
  /\ conf \in Confs
  /\ loop \in BOOLEAN \cup {None}
  /\ cache \in [Sources -> Texted \cup {None}]

-----------------------------------------------------------------------------
(* policy.py *)

(* search_order: what is asked before XDG.  --policy is exported over the   *)
(* variable, once and for all.                                              *)
search_order(flag) == IF flag THEN "flag" ELSE "env"

(* The first source that names a path with a file there. *)
resolve(flag) ==
  LET named(s) == reach[s] # "unset" /\ files[s] # None
  IN  CASE named(search_order(flag)) -> search_order(flag)
        [] ~named(search_order(flag)) /\ named("xdg") -> "xdg"
        [] OTHER -> None

(* Mutant: the path is compared as it was given. *)
is_inside_as_given(s) == reach[s] = "inside"

(* profile_location_problem: canonical on both sides. *)
is_inside(s) == reach[s] \in {"inside", "link"}

(* read_profile, _validated_keys *)
Believed(s) == ~is_inside(s) /\ files[s].text.ok

(* profile_digest: of the bytes that were parsed, if this process did.      *)
profile_digest(s) == IF cache[s] # None THEN cache[s] ELSE files[s]

(* effective_ceilings: with a ceiling of the payer's, budgets are on and    *)
(* the subject may only tighten.  0 is no ceiling.                          *)
Tighter(a, b) == IF b = 0 \/ (a # 0 /\ a < b) THEN a ELSE b

effective_ceilings(c, t) ==
  IF t.cap = 0 /\ ~t.armed THEN [on |-> c.on, cap |-> c.cap]
  ELSE [on |-> TRUE, cap |-> IF t.cap = 0 THEN c.cap ELSE Tighter(c.cap, t.cap)]

-----------------------------------------------------------------------------
(* A configuration with a key that belongs to the operator is refused.      *)
refuse_policy_in_subject == ~conf.ok

(* util.load_conf, of a process with or without --policy.                   *)
Loads(flag) == /\ ~refuse_policy_in_subject
               /\ resolve(flag) # None => Believed(resolve(flag))

Merged(flag) ==
  LET s == resolve(flag)
      ceilings == effective_ceilings(conf, files[s].text)
  IN  [src |-> s, by |-> files[s].by, text |-> files[s].text,
       on |-> ceilings.on, cap |-> ceilings.cap, recorded |-> None]

(* runner.require_trust *)
Trusted(t) == t.trust = "trusted" \/ (t.trust = "untrusted" /\ t.boundary)

(* budget.cap_problem: a ceiling of the subject's that the role command does *)
(* not tell the provider is no ceiling; the operator's is a reservation.    *)
cap_problem(m) == m.on /\ m.cap > 0 /\ ~m.text.tells /\ m.text.cap = 0

(* Without any profile nothing starts; its location is asked once more.     *)
require_policy(flag) == resolve(flag) # None /\ ~is_inside(resolve(flag))

(* main: a --policy that names no file does not fall through.               *)
Start == \E flag \in BOOLEAN :
  /\ loop = None
  /\ flag => reach["flag"] # "unset" /\ files["flag"] # None
  /\ Loads(flag) /\ require_policy(flag)
  /\ loop' = flag
  /\ cache' = [cache EXCEPT ![resolve(flag)] = files[resolve(flag)]]
  /\ UNCHANGED <<reach, files, conf, session>>

(* cmd_next reads again under its lock, and dispatches.  Without a profile  *)
(* there is no role command and no trust level.                             *)
Launch ==
  /\ loop # None /\ session = None
  /\ resolve(loop) # None /\ Loads(loop)
  /\ Trusted(files[resolve(loop)].text)
  /\ ~cap_problem(Merged(loop))
  /\ cache' = [cache EXCEPT ![resolve(loop)] = files[resolve(loop)]]
  /\ session' = Merged(loop)
  /\ UNCHANGED <<reach, files, conf, loop>>

(* dispatch_record, a moment later, searches again for the digest; it is    *)
(* "unknown" when there is no profile by then.                              *)
RecordPolicy ==
  /\ session # None /\ session.recorded = None
  /\ LET s == resolve(loop) IN
     session' = [session EXCEPT !.recorded =
                   [src |-> s, bytes |-> IF s = None THEN None ELSE profile_digest(s)]]
  /\ UNCHANGED <<reach, files, conf, loop, cache>>

SessionEnds == /\ session # None /\ session.recorded # None /\ session' = None
               /\ UNCHANGED <<reach, files, conf, loop, cache>>

LoopEnds == /\ loop # None /\ session = None
            /\ loop' = None /\ cache' = [s \in Sources |-> None]
            /\ UNCHANGED <<reach, files, conf, session>>

-----------------------------------------------------------------------------
Writes(s, text, who) == files' = [files EXCEPT ![s] = IF text = None THEN None
                                                      ELSE [by |-> who, text |-> text]]

OperatorSets ==
  /\ \/ \E s \in Sources, t \in Texts \cup {None} :
          reach[s] # "unset" /\ Writes(s, t, "operator") /\ UNCHANGED conf
     \/ conf' \in Confs /\ UNCHANGED files
  /\ UNCHANGED <<reach, loop, cache, session>>

(* The files a session writes in the project are in it when it has ended.   *)
SessionSets ==
  /\ session # None
  /\ \/ \E s \in Sources, t \in Texts :
          reach[s] \in {"inside", "link"} /\ Writes(s, t, "session") /\ UNCHANGED conf
     \/ conf' \in Confs /\ UNCHANGED files
  /\ UNCHANGED <<reach, loop, cache, session>>

PolicyInit ==
  /\ \E m \in Setups : reach = m.reach /\ files = m.files
  /\ conf = CHOOSE c \in Confs : c.ok
  /\ loop = None /\ cache = [s \in Sources |-> None] /\ session = None

-----------------------------------------------------------------------------
(* policy.py:369, :194: "The subject would be setting the terms of its own  *)
(* audit".  Whatever earlier sessions wrote, a session runs under a profile *)
(* that the operator wrote, and under ceilings that are not looser than the *)
(* ones in it.                                                              *)
SubjectSetsNoPolicy ==
  session # None =>
    /\ session.by = "operator"
    /\ session.text.armed \/ session.text.cap > 0 => session.on
    /\ session.text.cap > 0 => session.cap \in 1..session.text.cap

(* policy.py:546: the digest in the envelope is of the bytes in force, also  *)
(* when somebody edits the profile meanwhile, unless the search ends        *)
(* somewhere else by then.                                                  *)
DigestNamesPolicy ==
  session # None /\ session.recorded # None /\ session.recorded.src = session.src =>
    session.recorded.bytes = [by |-> session.by, text |-> session.text]
=============================================================================
