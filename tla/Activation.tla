----------------------------- MODULE Activation -----------------------------
(***************************************************************************)
(* Background activation: domain/src/activation.rs, the adapter of         *)
(* activation-os/src/lib.rs with its Linux calls (linux_calls.rs), and the *)
(* activation.enable and activation.disable verbs that lead to them from   *)
(* the command line and from a composed surface.                           *)
(*                                                                         *)
(* Nothing is remembered: what is registered is what the operating system  *)
(* shows, a user unit (or an autostart entry), a system unit and the       *)
(* user's lingering.  A transition is a row of commands, each of which may *)
(* fail or be refused by the person who is asked to authorise it.          *)
(***************************************************************************)
CONSTANTS
    Hosts,          \* hosts there are: with systemd, with logind alone (elogind), or bare
    Faults          \* what may fail: "file", "unit", "elevation", "query"

ActivationAssumption ==
    /\ Hosts \subseteq {"systemd", "logind", "bare"}
    /\ Faults \subseteq {"file", "unit", "elevation", "query"}

VARIABLES
    host,
    login,          \* the user unit, or the autostart entry
    system,         \* the unit under /etc/systemd/system
    linger,         \* whether the user's units start without a login
    verb,           \* the verb being carried out, or the last one
    step,           \* how far it is
    answer,
    before,         \* what was registered when it began
    trouble,        \* what has failed in it
    prompted        \* whether it has asked for elevation

vars == <<host, login, system, linger, verb, step, answer, before, trouble, prompted>>
registered == <<login, system, linger>>

Systemd == host = "systemd"         \* has_systemd_user, and systemctl runs
Logind == host # "bare"             \* loginctl runs

Modes == {"login", "system"}

\* A unit file that was written is not yet one that the service manager starts.
Entries == {"none", "written", "enabled"}
Written(entry) == IF entry = "enabled" THEN "enabled" ELSE "written"

Enable(mode, by) == [do |-> "enable", mode |-> mode, by |-> by]
Disable(by) == [do |-> "disable", mode |-> "none", by |-> by]

\* What the surfaces carry out: enabling the system mode is left to the command line.
Verbs == {Enable(mode, "cli") : mode \in Modes} \union {Enable("login", "surface")}
         \union {Disable(by) : by \in {"cli", "surface"}}

Inactive == [is |-> "inactive"]
Unknown == [is |-> "unknown"]
Active(mode) == [is |-> "active", mode |-> mode]
RequiresApproval(mode) == [is |-> "approval", mode |-> mode]

\* derive_mode_state, for a unit: one that is there and not enabled waits for approval.
ModeState(entry, mode) ==
    IF entry = "written" THEN RequiresApproval(mode) ELSE Active(mode)

\* observe: the system unit first, then what is registered for a login and lingers, be it a
\* unit or an autostart entry, then what is registered for a login.  Whether a unit is enabled
\* is asked of systemctl, and lingering of loginctl.
Observed ==
    IF system # "none" THEN IF Systemd THEN ModeState(system, "system") ELSE Unknown
    ELSE IF ~Logind THEN Unknown
    ELSE IF login = "none" THEN Inactive
    ELSE IF linger THEN Active("system")
    ELSE ModeState(login, "login")

\* What observe may answer, given that a command it asks with may not run.
Looks == {Observed} \union (IF "query" \in Faults THEN {Unknown} ELSE {})

\* Whether what was observed is registered for some mode, for that mode, for another.
IsOf(seen, mode) == seen.is \in {"active", "approval"} /\ seen.mode = mode
IsOfAnother(seen, mode) == seen.is \in {"active", "approval"} /\ seen.mode # mode

\* What it says of the verb that an observation was not to be had.
Noted(seen) ==
    trouble \union (IF seen # Unknown THEN {}
                    ELSE IF Observed = Unknown THEN {"missing"} ELSE {"query"})

Init ==
    /\ host \in Hosts
    /\ login = "none" /\ system = "none"
    /\ linger \in {l \in BOOLEAN : l => Logind}
    /\ verb = Disable("cli") /\ step = "idle" /\ answer = "none"
    /\ before = registered
    /\ trouble = {} /\ prompted = FALSE

-----------------------------------------------------------------------------
To(next) == step' = next /\ answer' = "none"
Ends(with) == step' = "idle" /\ answer' = with

\* A verb begins, acknowledged.
Ask(v) ==
    /\ step = "idle"
    /\ verb' = v
    /\ before' = registered
    /\ trouble' = {} /\ prompted' = FALSE
    /\ To(IF v.do = "enable" THEN "look" ELSE IF v.by = "surface" THEN "may" ELSE "remove")
    /\ UNCHANGED <<host, registered>>

\* needs_elevation_now: a surface does not remove what was registered for the system.
MayDisable ==
    /\ step = "may"
    /\ \E seen \in Looks :
          /\ trouble' = Noted(seen)
          /\ IF IsOf(seen, "system") THEN Ends("elsewhere") ELSE To("remove")
    /\ UNCHANGED <<host, registered, verb, before, prompted>>

\* enable: whatever else is registered is removed first.
Look ==
    /\ step = "look"
    /\ \E seen \in Looks :
          /\ trouble' = Noted(seen)
          /\ To(IF IsOfAnother(seen, verb.mode) THEN "remove" ELSE "register")
    /\ UNCHANGED <<host, registered, verb, before, prompted>>

\* remove_login_entry; disabling the unit is tried and its failure ignored.
RemoveLogin ==
    /\ step = "remove"
    /\ \/ login' = "none" /\ To("removeSystem") /\ UNCHANGED trouble
       \/ /\ "file" \in Faults /\ login # "none"
          /\ login' \in {login} \union (IF Systemd THEN {"written"} ELSE {})
          /\ Ends("failed") /\ trouble' = trouble \union {"file"}
    /\ UNCHANGED <<host, system, linger, verb, before, prompted>>

\* Mutation of RemoveSystem: what was registered for the system is not looked for.
RemoveSystem_Skipped ==
    /\ step = "removeSystem"
    /\ To("absent")
    /\ UNCHANGED <<host, registered, verb, before, trouble, prompted>>

\* remove_system_entry: the system unit, with the person's authorisation; or else the
\* lingering, without it if that is allowed, and a lingering that stays is no error.
RemoveSystem ==
    /\ step = "removeSystem"
    /\ IF system # "none"
       THEN /\ prompted' = TRUE
            /\ \/ system' = "none" /\ To("absent") /\ UNCHANGED trouble
               \/ /\ "elevation" \in Faults
                  /\ system' \in {system, "written"}
                  /\ Ends("failed") /\ trouble' = trouble \union {"elevation"}
            /\ UNCHANGED linger
       ELSE /\ \/ Logind /\ linger' = FALSE /\ UNCHANGED <<prompted, trouble>>
               \/ /\ "elevation" \in Faults \/ ~Logind
                  /\ prompted' = TRUE
                  /\ \/ Logind /\ linger' = FALSE /\ UNCHANGED trouble
                     \/ UNCHANGED linger /\ trouble' = trouble \union {"elevation"}
            /\ To("absent")
            /\ UNCHANGED system
    /\ UNCHANGED <<host, login, verb, before>>

\* The removal is believed when it is seen.
SeeAbsent ==
    /\ step = "absent"
    /\ \E seen \in Looks :
          /\ trouble' = Noted(seen)
          /\ IF seen # Inactive THEN Ends("failed")
             ELSE IF verb.do = "disable" THEN Ends("deactivated") ELSE To("register")
    /\ UNCHANGED <<host, registered, verb, before, prompted>>

\* Registering: the login mode writes its entry, the system mode its unit.
Register ==
    /\ step = "register"
    /\ To(IF verb.mode = "login" THEN "write" ELSE "writeSystem")
    /\ UNCHANGED <<host, registered, verb, before, trouble, prompted>>

\* try_write_system_unit: written, reloaded and enabled, each as root and each refusable; a
\* refusal leaves what was done so far and falls back to the lingering user unit.  Without
\* systemd a file may be written, and no more.
WriteSystemUnit ==
    /\ step = "writeSystem"
    /\ prompted' = TRUE
    /\ \/ Systemd /\ system' = "enabled" /\ To("verify") /\ UNCHANGED trouble
       \/ /\ "elevation" \in Faults \/ ~Systemd
          /\ system' \in {system, Written(system)}
          /\ To("write") /\ trouble' = trouble \union {"elevation"}
    /\ UNCHANGED <<host, login, linger, verb, before>>

AfterLogin == IF verb.mode = "login" THEN "verify" ELSE "linger"

\* write_login_entry: the file; an autostart entry needs no more.
WriteLogin ==
    /\ step = "write"
    /\ \/ /\ login' = IF Systemd THEN Written(login) ELSE "enabled"
          /\ To(IF Systemd THEN "enableUnit" ELSE AfterLogin)
          /\ UNCHANGED trouble
       \/ /\ "file" \in Faults
          /\ Ends("failed") /\ trouble' = trouble \union {"file"} /\ UNCHANGED login
    /\ UNCHANGED <<host, system, linger, verb, before, prompted>>

\* write_login_entry: systemctl --user enable.
EnableUnit ==
    /\ step = "enableUnit"
    /\ \/ login' = "enabled" /\ To(AfterLogin) /\ UNCHANGED trouble
       \/ /\ "unit" \in Faults
          /\ Ends("failed") /\ trouble' = trouble \union {"unit"} /\ UNCHANGED login
    /\ UNCHANGED <<host, system, linger, verb, before, prompted>>

\* try_enable_linger: without authorisation if that is allowed, and with it otherwise.
EnableLinger ==
    /\ step = "linger"
    /\ \/ Logind /\ linger' = TRUE /\ To("verify") /\ UNCHANGED <<prompted, trouble>>
       \/ /\ "elevation" \in Faults \/ ~Logind
          /\ prompted' = TRUE
          /\ \/ Logind /\ linger' = TRUE /\ To("verify") /\ UNCHANGED trouble
             \/ Ends("failed") /\ trouble' = trouble \union {"elevation"} /\ UNCHANGED linger
    /\ UNCHANGED <<host, login, system, verb, before>>

\* Mutation of Verified: a call that succeeded is taken at its word.
Verified_Claimed(seen) == "activated"

\* What enable answers to what it reads back.
Verified(seen) ==
    IF ~IsOf(seen, verb.mode) THEN "failed"
    ELSE IF seen.is = "active" THEN "activated" ELSE "approval"

Verify ==
    /\ step = "verify"
    /\ \E seen \in Looks : trouble' = Noted(seen) /\ Ends(Verified(seen))
    /\ UNCHANGED <<host, registered, verb, before, prompted>>

\* The process that carries the verb out is stopped half way.
Stop ==
    /\ step # "idle"
    /\ Ends("none")
    /\ UNCHANGED <<host, registered, verb, before, trouble, prompted>>

Next ==
    \/ \E v \in Verbs : Ask(v)
    \/ MayDisable \/ Look \/ RemoveLogin \/ RemoveSystem \/ SeeAbsent
    \/ Register \/ WriteSystemUnit \/ WriteLogin \/ EnableUnit \/ EnableLinger \/ Verify
    \/ Stop

Spec == Init /\ [][Next]_vars

-----------------------------------------------------------------------------
TypeOK ==
    /\ host \in Hosts /\ login \in Entries /\ system \in Entries /\ linger \in BOOLEAN
    /\ verb \in Verbs
    /\ answer \in {"none", "activated", "approval", "deactivated", "failed", "elsewhere"}
    /\ trouble \subseteq {"file", "unit", "elevation", "query", "missing"}
    /\ prompted \in BOOLEAN

\* What really happens next time, whatever anybody reports: units are systemd's to start,
\* and an autostart entry waits for the session whether or not its user lingers.
StartsAtBoot == Systemd /\ (system = "enabled" \/ (linger /\ login = "enabled"))
StartsAtLogin == login = "enabled" /\ ~(Systemd /\ linger)

\* "A claimed success is never trusted over the observation": whatever failed before or
\* meanwhile, a mode said to be activated is the one that starts the program and the wider
\* one is not in force with the narrower, and after a deactivation nothing starts it.  Where
\* loginctl answers and there is no systemd, the system mode is only seen to be there
\* (SystemStartsAtBoot).
SuccessIsReal ==
    /\ answer = "activated" /\ verb.mode = "login" => StartsAtLogin /\ ~StartsAtBoot
    /\ answer = "activated" /\ verb.mode = "system" =>
          StartsAtBoot \/ (host = "logind" /\ StartsAtLogin)
    /\ answer = "deactivated" => ~StartsAtLogin /\ ~StartsAtBoot

\* What an earlier failure or a stop left behind never stands in the way of a later verb: a
\* transition fails only if one of its own commands failed, or if the user's units linger
\* for reasons of their own when the login mode is asked for.
FailuresAreOfToday ==
    answer = "failed" /\ trouble = {} => verb.do = "enable" /\ verb.mode = "login" /\ linger

\* The answers of the activation verbs: no success that is not real, no failure that comes
\* from what earlier transitions left.
ActivationAnswersHold == SuccessIsReal /\ FailuresAreOfToday

\* activation.rs:25: "Every path that returns this leaves the registry at `Inactive` (its
\* default) or unchanged from before the call - never a half-completed, doubly-registered
\* state"; a refused authorisation "mutates nothing".
FailuresChangeNothing ==
    answer = "failed" => (login = "none" /\ system = "none") \/ registered = before

\* carry_out.rs:40 and registration.rs: an elevation prompt is what "a composed surface
\* never attempts".
SurfacesNeverElevate == verb.by = "surface" => ~prompted

\* l2-service-activation.md: without systemd "login-scoped remains available" through the
\* autostart entry.
LoginWorksWithoutSystemd ==
    ~Systemd /\ verb.mode = "login" /\ trouble \subseteq {"missing"} => answer # "failed"

\* carry_out.rs: what requires approval "the operating system will not run" before it.
ApprovalMeansNotYet == answer = "approval" => ~StartsAtBoot

\* linux_calls.rs: both realizations of the system mode "are system-scoped in the boot-time
\* sense"; "absent systemd, neither exists".
SystemStartsAtBoot == answer = "activated" /\ verb.mode = "system" => StartsAtBoot
=============================================================================
