---------------------------- MODULE ConfigRules -----------------------------
(* What the backup accepts as its configuration: load_config and             *)
(* load_sync_interval (git/config.py) and --sync-interval (main.py), and the *)
(* user who starts the service, reads what it says and mends what it names.  *)
(*                                                                           *)
(* Values are classes of values: those the rules below tell apart.           *)
EXTENDS Integers, Sequences

CONSTANTS
    Urls,       \* acceptable spellings of remotes, compared as they are
    Branches,   \* acceptable branch names
    BadUrls, BadBranches, BadTokens, BadTexts,
                \* the other values a file may hold
    Intervals   \* what may be given as an interval

AssetNames == <<"private", "common">>
Names == {AssetNames[i] : i \in DOMAIN AssetNames}

NotGiven == {"missing", "notString", "blank"}
UnsafeUrls == {"notHttps", "withUser", "hostless"}
\* urlsplit, and starting git, raise ValueError for some.
UnreadableUrls == {"badHost"}
UnsafeBranches == {"dash", "badName"}
UnreadableBranches == {"nul"}
Placeholder == "placeholder"
\* What stands for a section that is not there, or is no section.
NoStrings == {"absent", "scalar"}

ASSUME ConfigAssumption ==
    /\ BadUrls \subseteq NotGiven \cup UnsafeUrls \cup UnreadableUrls \cup {Placeholder}
    /\ BadBranches \subseteq NotGiven \cup UnsafeBranches \cup UnreadableBranches
    /\ BadTokens \subseteq NotGiven \cup {Placeholder}
    /\ BadTexts \subseteq {"unreadable", "notToml", "notUtf8"}
    /\ Urls \cap (NotGiven \cup UnsafeUrls \cup UnreadableUrls \cup {Placeholder}
               \cup NoStrings) = {}
    /\ Branches \cap (NotGiven \cup UnsafeBranches \cup UnreadableBranches
                   \cup NoStrings) = {}
    /\ Intervals \subseteq [kind : {"unset", "bool", "string", "int"}, value : Int]

VARIABLES
    file,       \* config.toml
    inside,     \* assets whose work tree holds config.toml
    git,        \* whether git can be run
    option,     \* --sync-interval
    answer,     \* what the service last said of them
    named,      \* ghost: all it has said was at fault
    interval    \* the interval it runs with

vars == <<file, inside, git, option, answer, named, interval>>

Absent == [url |-> "absent", branch |-> "absent", token |-> "absent"]
NoSection == [Absent EXCEPT !.url = "scalar"]
Unfilled == [url |-> "missing", branch |-> "missing", token |-> "missing"]
Sections == [url : Urls \cup BadUrls, branch : Branches \cup BadBranches,
             token : {"token"} \cup BadTokens]
Unset == [kind |-> "unset", value |-> 0]
Files == [text : {"toml"} \cup BadTexts, assets : BOOLEAN,
          asset : [Names -> Sections \cup {Absent, NoSection}], interval : Intervals]

Configured(f) == {name \in Names : f.asset[name] # Absent}

-----------------------------------------------------------------------------
(* load_config.                                                              *)

\* A fault is a place and a key in it.  The first is the answer, a
\* ConfigError, unless it is an exception of another kind.
Fault(where, key, found) == IF found THEN <<[where |-> where, key |-> key]>> ELSE <<>>
Escape(found) == Fault("none", "none", found)
Accepted == [where |-> "none", key |-> "accepted"]
Unread == [where |-> "none", key |-> "unread"]
FirstOf(faults) == IF faults = <<>> THEN Accepted ELSE Head(faults)

\* _build_repo: _require, _validate_url and _validate_branch, then the
\* placeholders.  Mutant of TokenFault: only the URL's are looked for.
AnyToken(name, s) == <<>>
TokenFault(name, s) == Fault(name, "GIT_REPO_TOKEN", s.token = Placeholder)
\* Mutant of UrlFault: the wrong key is named.
NamesToken(name, s) == Fault(name, "GIT_REPO_TOKEN", s.url = Placeholder)
UrlFault(name, s) == Fault(name, "GIT_REPO_URL", s.url = Placeholder)
SectionFaults(name, s) ==
    Fault(name, "section", s = NoSection)
    \o Fault(name, "GIT_REPO_URL", s.url \in NotGiven \cup UnsafeUrls)
    \o Escape(s.url \in UnreadableUrls)
    \o Fault(name, "GIT_REPO_BRANCH", s.branch \in NotGiven \cup {"dash"})
    \o Escape(s.branch \in UnreadableBranches)
    \o Fault("git", "git", ~git)
    \o Fault(name, "GIT_REPO_BRANCH", s.branch \in UnsafeBranches)
    \o Fault(name, "GIT_REPO_TOKEN", s.token \in NotGiven)
    \o UrlFault(name, s) \o TokenFault(name, s)
AssetFaults(name, f) ==
    IF name \in Configured(f) THEN SectionFaults(name, f.asset[name]) ELSE <<>>

SameRemote(f) ==
    /\ Configured(f) = Names
    /\ f.asset["private"].url = f.asset["common"].url
    /\ f.asset["private"].branch = f.asset["common"].branch

\* Mutant of NothingConfigured: every section is required.
NotAllConfigured(f) == Configured(f) # Names
NothingConfigured(f) == Configured(f) = {}

\* All faults of a file in the order load_config looks for them.
Faults(f) ==
    Escape(f.text = "notUtf8")
    \o Fault("file", "text", f.text \in {"unreadable", "notToml"})
    \o Fault("file", "assets", ~f.assets)
    \o AssetFaults(AssetNames[1], f) \o AssetFaults(AssetNames[2], f)
    \o Fault("file", "assets", NothingConfigured(f))
    \o Fault("file", "remote", SameRemote(f))
    \o Fault("file", "place", Configured(f) \cap inside # {})

-----------------------------------------------------------------------------
(* The interval.                                                             *)

Default == 300
Longest == 86400

\* sync_interval_problem.  Mutant of Problem: true is taken for a number.
NumberLike(v) == v.kind \notin {"int", "bool"} \/ v.value \notin 1 .. Longest
Problem(v) == v.kind # "int" \/ v.value \notin 1 .. Longest

\* load_sync_interval falls back, --sync-interval is refused.
FileInterval(f) == IF Problem(f.interval) THEN Default ELSE f.interval.value
\* Mutant of OptionFault: any number but zero will do.
PositiveOnly == Fault("option", "interval",
                      option # Unset /\ (option.kind # "int" \/ option.value <= 0))
OptionFault == Fault("option", "interval", option # Unset /\ Problem(option))

-----------------------------------------------------------------------------
\* Starting the service.
Start ==
    /\ answer = Unread
    /\ answer' = FirstOf(OptionFault \o Faults(file))
    /\ named' = named \cup {<<answer'.where, answer'.key>>}
    /\ interval' = IF answer' # Accepted THEN interval
                   ELSE IF option = Unset THEN FileInterval(file) ELSE option.value
    /\ UNCHANGED <<file, inside, git, option>>

\* What the user does to a value that is named.
Mend(name, key) ==
    \/ /\ key = "GIT_REPO_URL"
       /\ \E url \in Urls \ {file.asset[name].url} :
             file' = [file EXCEPT !.asset[name].url = url]
    \/ /\ key = "GIT_REPO_BRANCH"
       /\ \E branch \in Branches \ {file.asset[name].branch} :
             file' = [file EXCEPT !.asset[name].branch = branch]
    \/ /\ key = "GIT_REPO_TOKEN"
       /\ file' = [file EXCEPT !.asset[name].token = "token"]
    \/ /\ key = "section"
       /\ file' = [file EXCEPT !.asset[name] = Unfilled]

MendFile(key) ==
    \/ key = "text" /\ file' = [file EXCEPT !.text = "toml"]
    \/ /\ key = "assets"
       /\ \E name \in Names :
             file' = [file EXCEPT !.assets = TRUE,
                                  !.asset[name] = IF Configured(file) = {}
                                                  THEN Unfilled ELSE @]
    \/ /\ key = "remote"
       /\ \E name \in Names : Mend(name, "GIT_REPO_URL") \/ Mend(name, "GIT_REPO_BRANCH")

MendNamed ==
    /\ answer \notin {Accepted, Unread}
    /\ \/ /\ answer.where \in Names /\ Mend(answer.where, answer.key)
          /\ UNCHANGED <<inside, git, option>>
       \/ /\ answer.where = "file" /\ MendFile(answer.key)
          /\ UNCHANGED <<inside, git, option>>
       \/ /\ answer.key = "place" /\ inside' = {}
          /\ UNCHANGED <<file, git, option>>
       \/ /\ answer.key = "git" /\ git' = TRUE
          /\ UNCHANGED <<file, inside, option>>
       \/ /\ answer.where = "option" /\ option' = Unset
          /\ UNCHANGED <<file, inside, git>>
    /\ answer' = Unread
    /\ UNCHANGED <<named, interval>>

\* The service that was refused tells nothing more: the user who cannot tell
\* what to mend stays as they are, and so does one whose file is accepted.
Init ==
    /\ file \in Files /\ inside \in {{}} \cup {{name} : name \in Names}
    /\ git \in BOOLEAN /\ option \in {v \in Intervals : v.kind # "bool"}
    /\ answer = Unread /\ named = {} /\ interval = Default

Next == Start \/ MendNamed

Spec == Init /\ [][Next]_vars

(* The user starts the service and mends what it names until it is content.  *)
FairSpec == Spec /\ WF_vars(Next)

-----------------------------------------------------------------------------
(* Properties.                                                               *)

(* Every variable has its type.                                              *)
ConfigTypeOK ==
    /\ file.text \in {"toml"} \cup BadTexts /\ file.assets \in BOOLEAN
    /\ file.interval \in Intervals /\ option \in Intervals \cup {Unset}
    /\ \A name \in Names :
          file.asset[name] \in Sections \cup {Absent, NoSection}
                               \cup [url : Urls \cup {"missing"},
                                     branch : Branches \cup {"missing"},
                                     token : {"token", "missing"}]
    /\ inside \subseteq Names /\ git \in BOOLEAN
    /\ interval \in 1 .. Longest

(* ConfigError: "The message names the file, the section and the key at      *)
(* fault, so the user knows what to edit".  Nothing the user has mended is   *)
(* named again, whichever good value they put in its place, and what the     *)
(* checks named first did not hide behind it a fault that undoes the repair. *)
NothingNamedTwice ==
    [][answer = Unread /\ answer' # Accepted
         => <<answer'.where, answer'.key>> \notin named]_vars

(* So the user arrives at a file that is accepted, or at a value the service *)
(* does not name because reading it raised something else than ConfigError.  *)
RepairsConverge == <>(answer = Accepted \/ answer = [where |-> "none", key |-> "none"])

(* What is accepted can be backed up: nothing in it is from the template, no *)
(* two assets are sent to one branch, and no work tree holds the tokens.     *)
AcceptedIsUsable ==
    answer = Accepted =>
        /\ git /\ file.text = "toml" /\ Configured(file) # {}
        /\ Configured(file) \cap inside = {}
        /\ \A name \in Configured(file) :
              /\ file.asset[name] \in [url : Urls, branch : Branches, token : {"token"}]
              /\ \A other \in Configured(file) \ {name} :
                    \/ file.asset[name].url # file.asset[other].url
                    \/ file.asset[name].branch # file.asset[other].branch

(* ASSET_NAMES: "Each one is optional on its own".  A file that is accepted  *)
(* stays so when either of its two sections is taken out of it.              *)
SectionsAreIndependent ==
    (answer = Accepted /\ Configured(file) = Names) =>
        \A name \in Names :
            Faults([file EXCEPT !.asset[name] = Absent]) = <<>>

(* The loop of the backup always waits, and as long as it was told to: an    *)
(* interval of the command line counts, then a usable one of the file, then  *)
(* the default.  --sync-interval takes exactly what the file takes.          *)
IntervalAsGiven ==
    answer = Accepted =>
        LET given == IF option # Unset THEN option ELSE file.interval
            usable == given.kind = "int" /\ given.value >= 1 /\ given.value <= Longest
        IN  /\ interval = IF usable THEN given.value ELSE Default
            /\ option # Unset => usable
====
