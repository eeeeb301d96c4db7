------------------------------- MODULE Doctor -------------------------------
(***************************************************************************)
(* promptwise doctor: run_diagnostics of core/diagnostics/checks.py, the   *)
(* dependency check of core/security/supply_chain.py, and the exit code of *)
(* the command (scripts/promptwise.py).  Eleven checks run one after the   *)
(* other, each looking at the host when its turn comes; meanwhile the      *)
(* configuration is edited and the audit log written.                      *)
(***************************************************************************)
EXTENDS Integers, Sequences, FiniteSets

CONSTANT
    None            \* no exit code

DoctorAssumption == None \notin {0, 1}

VARIABLES
    layers,         \* the configuration files: they resolve, they resolve but have a
                    \* scalar for a section, or they do not resolve
    trail,          \* the audit log: whole, edited, or with a line that is not finished
    doctor          \* the run in progress, or the last one

doctorvars == <<layers, trail, doctor>>

Rest == [at |-> "idle", settings |-> None, report |-> <<>>, exit |-> None]

DoctorInit ==
    /\ layers \in {"whole", "odd", "broken"}
    /\ trail \in {"whole", "edited", "torn"}
    /\ doctor = Rest

-----------------------------------------------------------------------------
(* The checks *)

\* What the checks without a state of their own can find and what they make of it:
\* whatever a service or a file does to them is caught.
Ram == {<<"undetected", "WARN">>, <<"low", "WARN">>, <<"enough", "PASS">>}
PacksIntegrity == {<<"none", "PASS">>, <<"valid", "PASS">>, <<"invalid", "FAIL">>}
Ollama == {<<"down", "WARN">>, <<"no list", "WARN">>, <<"no model", "WARN">>, <<"ready", "PASS">>}
Qdrant == {<<"down", "WARN">>, <<"ready", "PASS">>}
PolicyLoad == {<<"invalid", "FAIL">>, <<"valid", "PASS">>}
Gateway == {<<"down", "WARN">>, <<"ill", "WARN">>, <<"well", "PASS">>}
DbSchema == {<<"missing", "WARN">>, <<"newer", "FAIL">>, <<"behind", "WARN">>,
             <<"unreadable", "WARN">>, <<"head", "PASS">>}
Exposure == {<<"inside", "WARN">>, <<"outside", "PASS">>}

\* Installed packages that can be listed or not, one of them known to be bad or
\* not; the list that says so; the lock file.
Environments == [listable: BOOLEAN, bad: BOOLEAN, denyList: {"absent", "unreadable", "read"},
                 lock: {"absent", "unreadable", "unhashed", "drifted", "clean"}]

KnownBad(e) == e.listable /\ e.bad /\ e.denyList = "read"

\* check_dependencies: what is known to be bad comes first; a list that cannot be
\* read names nothing.
Dependencies(e) ==
    IF KnownBad(e) THEN "FAIL"
    ELSE IF ~e.listable \/ e.lock # "clean" THEN "WARN" ELSE "PASS"

Judge(status) == doctor' = [doctor EXCEPT !.report = Append(@, status)]

Raise == doctor' = [doctor EXCEPT !.at = "raised"]

Number == Len(doctor.report) + 1

Simple(number, probe) ==
    /\ Number = number
    /\ \E found \in probe : Judge(found[2])

\* These are the first to take a section of the settings for a mapping, and it may
\* be the odd one.
OfSection(number, probe) ==
    \/ doctor.settings = "odd" /\ Number = number /\ Raise
    \/ Simple(number, probe)

\* resolve_config_auto before the first check.
RunDiagnostics ==
    /\ doctor.at = "idle"
    /\ doctor' = [Rest EXCEPT !.settings = layers,
                              !.at = IF layers = "broken" THEN "raised" ELSE "check"]
    /\ UNCHANGED <<layers, trail>>

\* config.resolve reads the files again; the odd section may be that of the name
\* it looks for.
CheckConfigResolve ==
    /\ doctor.at = "check" /\ Number = 2
    /\ \/ layers \in {"broken", "odd"} /\ Judge("FAIL")
       \/ layers \in {"whole", "odd"} /\ Judge("PASS")
    /\ UNCHANGED <<layers, trail>>

\* verify_chain takes every line for a record.
CheckAuditChain ==
    /\ doctor.at = "check" /\ Number = 7
    /\ IF trail = "torn" THEN Raise
       ELSE Judge(IF trail = "edited" THEN "FAIL" ELSE "PASS")
    /\ UNCHANGED <<layers, trail>>

CheckDependencies ==
    /\ doctor.at = "check" /\ Number = 9
    /\ \E e \in Environments : Judge(Dependencies(e))
    /\ UNCHANGED <<layers, trail>>

OtherCheck ==
    /\ doctor.at = "check"
    /\ \/ Simple(1, Ram) \/ Simple(3, PacksIntegrity)
       \/ OfSection(4, Ollama) \/ Simple(5, Qdrant)
       \/ Simple(6, PolicyLoad)
       \/ OfSection(8, Gateway)
       \/ Simple(10, DbSchema)
       \/ Simple(11, Exposure)
       \/ Number = 11 /\ Raise     \* the operator's own file is broken or odd
    /\ UNCHANGED <<layers, trail>>

\* The command prints the results and exits.
DoctorExits ==
    /\ doctor.at = "check" /\ Number = 12
    /\ doctor' = [doctor EXCEPT !.at = "done",
                                !.exit = IF \E i \in 1..11 : doctor.report[i] = "FAIL" THEN 1 ELSE 0]
    /\ UNCHANGED <<layers, trail>>

DoctorAgain ==
    /\ doctor.at \in {"done", "raised"} /\ doctor' = Rest
    /\ UNCHANGED <<layers, trail>>

EditConfig ==
    /\ layers' \in {"whole", "odd", "broken"} \ {layers}
    /\ UNCHANGED <<trail, doctor>>

\* Another process is in the middle of its record, or died there, or goes on.
AppendRecord ==
    /\ trail' = IF trail = "torn" THEN "whole" ELSE "torn"
    /\ trail # "edited"
    /\ UNCHANGED <<layers, doctor>>

DoctorNext ==
    \/ RunDiagnostics \/ CheckConfigResolve \/ CheckAuditChain \/ CheckDependencies
    \/ OtherCheck \/ DoctorExits \/ DoctorAgain \/ EditConfig \/ AppendRecord

DoctorSpec == DoctorInit /\ [][DoctorNext]_doctorvars

-----------------------------------------------------------------------------
(* Properties *)

DoctorTypeOK ==
    /\ layers \in {"whole", "odd", "broken"} /\ trail \in {"whole", "edited", "torn"}
    /\ doctor.at \in {"idle", "check", "done", "raised"}
    /\ doctor.report \in Seq({"PASS", "WARN", "FAIL"}) /\ Len(doctor.report) <= 11
    /\ doctor.exit \in {0, 1, None} /\ (doctor.exit # None <=> doctor.at = "done")

\* checks.py:44, "doctor must never crash on a bad config": every run ends with the
\* report of all its checks.
DoctorAnswers == doctor.at # "raised"
=============================================================================
