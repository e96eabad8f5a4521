------------------------- MODULE ConfigRulesProofs -------------------------
(* Proofs about ConfigRules, for any remotes, branches, faulty values and    *)
(* intervals: what is accepted, and what is named.                           *)
EXTENDS ConfigRules, TLAPS

-----------------------------------------------------------------------------
(* Sequences of faults.                                                      *)

\* The first of two sequences in a row is the first's, if it has one.
LEMMA Concatenation ==
    ASSUME NEW S, NEW s \in Seq(S), NEW t \in Seq(S)
    PROVE  /\ s \o t \in Seq(S)
           /\ s \o t = <<>> <=> s = <<>> /\ t = <<>>
           /\ s # <<>> => Head(s \o t) = Head(s)
           /\ s = <<>> => s \o t = t
<1>1. Len(s) \in Nat /\ Len(t) \in Nat /\ Len(s \o t) = Len(s) + Len(t)
  OBVIOUS
<1>2. s \o t \in Seq(S)
  OBVIOUS
<1>3. s # <<>> => Head(s \o t) = Head(s)
  OBVIOUS
<1>4. s = <<>> => s \o t = t
  OBVIOUS
<1>5. s \o t = <<>> <=> s = <<>> /\ t = <<>>
  BY <1>1
<1> QED  BY <1>2, <1>3, <1>4, <1>5

LEMMA FirstIsFault ==
    ASSUME NEW S, NEW s \in Seq(S), s # <<>>
    PROVE  FirstOf(s) \in S
  BY DEF FirstOf

LEMMA OneFault ==
    ASSUME NEW S
    PROVE  /\ <<>> \in Seq(S)
           /\ \A a \in S : <<a>> \in Seq(S) /\ <<a>> # <<>>
  OBVIOUS

LEMMA TwoNames == Names = {"private", "common"} /\ DOMAIN AssetNames = {1, 2}
<1>1. DOMAIN AssetNames = {1, 2}
  BY DEF AssetNames
<1> QED  BY <1>1 DEF Names, AssetNames

-----------------------------------------------------------------------------
(* What an answer says.                                                      *)

Places == {"none", "option", "file", "git"} \cup Names
Keys == {"none", "interval", "text", "assets", "remote", "place", "git",
         "section", "GIT_REPO_URL", "GIT_REPO_BRANCH", "GIT_REPO_TOKEN"}
Sound == [url : Urls, branch : Branches, token : {"token"}]

\* The place and the key of an answer, and what is wrong there.
WrongIn(a, name, s) ==
    \/ a = [where |-> name, key |-> "section"] /\ s = NoSection
    \/ /\ a = [where |-> name, key |-> "GIT_REPO_URL"]
       /\ s.url \notin Urls \cup NoStrings
    \/ /\ a = [where |-> name, key |-> "GIT_REPO_BRANCH"]
       /\ s.branch \notin Branches \cup NoStrings
    \/ /\ a = [where |-> name, key |-> "GIT_REPO_TOKEN"]
       /\ s.token \notin {"token"} \cup NoStrings
Wrong(a, f) ==
    \/ a = [where |-> "none", key |-> "none"]
    \/ a = [where |-> "option", key |-> "interval"] /\ option # Unset
    \/ a = [where |-> "file", key |-> "text"] /\ f.text # "toml"
    \/ /\ a = [where |-> "file", key |-> "assets"]
       /\ ~f.assets \/ Configured(f) = {}
    \/ /\ a = [where |-> "file", key |-> "remote"]
       /\ SameRemote(f) /\ \A name \in Names : f.asset[name] \in Sound
    \/ a = [where |-> "file", key |-> "place"] /\ inside # {}
    \/ a = [where |-> "git", key |-> "git"] /\ ~git
    \/ \E name \in Names : WrongIn(a, name, f.asset[name])
Answers == [where : Places, key : Keys]
Remote == [where |-> "file", key |-> "remote"]
\* The answers that come before that two assets have one remote.
Earlier(f) == {a \in Answers : Wrong(a, f) /\ a # Remote}

AnySection == Sections \cup {Absent, NoSection}
              \cup [url : Urls \cup {"missing"}, branch : Branches \cup {"missing"},
                    token : {"token", "missing"}]
AnyFile == [text : {"toml"} \cup BadTexts, assets : BOOLEAN,
            asset : [Names -> AnySection], interval : Intervals]

\* A section's faults are wrong where they say, and one without a fault is
\* sound.
LEMMA FaultsOfSection ==
    ASSUME NEW f \in AnyFile, NEW name \in Names, git \in BOOLEAN
    PROVE  /\ AssetFaults(name, f) \in Seq(Earlier(f))
           /\ AssetFaults(name, f) = <<>> /\ name \in Configured(f)
                => git /\ f.asset[name] \in Sound
<1> DEFINE s == f.asset[name]
           S == Earlier(f)
           x1 == Fault(name, "section", s = NoSection)
           x2 == Fault(name, "GIT_REPO_URL", s.url \in NotGiven \cup UnsafeUrls)
           x3 == Escape(s.url \in UnreadableUrls)
           x4 == Fault(name, "GIT_REPO_BRANCH", s.branch \in NotGiven \cup {"dash"})
           x5 == Escape(s.branch \in UnreadableBranches)
           x6 == Fault("git", "git", ~git)
           x7 == Fault(name, "GIT_REPO_BRANCH", s.branch \in UnsafeBranches)
           x8 == Fault(name, "GIT_REPO_TOKEN", s.token \in NotGiven)
           x9 == UrlFault(name, s)
           x10 == TokenFault(name, s)
<1>1. s \in AnySection /\ name \notin {"none", "option", "file", "git"}
  BY TwoNames DEF AnyFile
<1>2. ASSUME NEW key \in {"section", "GIT_REPO_URL", "GIT_REPO_BRANCH", "GIT_REPO_TOKEN"},
             WrongIn([where |-> name, key |-> key], name, s)
      PROVE  [where |-> name, key |-> key] \in S
  <2>1. Wrong([where |-> name, key |-> key], f)
    BY <1>2 DEF Wrong
  <2> QED  BY <1>1, <2>1 DEF Earlier, Answers, Places, Keys, Remote
<1>3. x1 \in Seq(S) /\ (x1 = <<>> <=> s # NoSection)
  <2>1. s = NoSection => [where |-> name, key |-> "section"] \in S
    BY <1>2 DEF WrongIn, Keys
  <2> QED  BY <2>1, OneFault DEF Fault
<1>4. x2 \in Seq(S) /\ (x2 = <<>> <=> s.url \notin NotGiven \cup UnsafeUrls)
  <2>1. s.url \in NotGiven \cup UnsafeUrls => [where |-> name, key |-> "GIT_REPO_URL"] \in S
    BY <1>2, ConfigAssumption DEF WrongIn, Keys, NotGiven, UnsafeUrls, NoStrings
  <2> QED  BY <2>1, OneFault DEF Fault
<1>5. [where |-> "none", key |-> "none"] \in S
  BY TwoNames DEF Earlier, Answers, Places, Keys, Wrong, WrongIn, Remote
<1>6. x3 \in Seq(S) /\ (x3 = <<>> <=> s.url \notin UnreadableUrls)
  BY <1>5, OneFault DEF Fault, Escape
<1>7. x4 \in Seq(S) /\ (x4 = <<>> <=> s.branch \notin NotGiven \cup {"dash"})
  <2>1. s.branch \in NotGiven \cup {"dash"} => [where |-> name, key |-> "GIT_REPO_BRANCH"] \in S
    BY <1>2, ConfigAssumption DEF WrongIn, Keys, NotGiven, UnsafeBranches, NoStrings
  <2> QED  BY <2>1, OneFault DEF Fault
<1>8. x5 \in Seq(S) /\ (x5 = <<>> <=> s.branch \notin UnreadableBranches)
  BY <1>5, OneFault DEF Fault, Escape
<1>9. x6 \in Seq(S) /\ (x6 = <<>> <=> git)
  <2>1. ~git => [where |-> "git", key |-> "git"] \in S
    BY TwoNames DEF Earlier, Answers, Places, Keys, Wrong, WrongIn, Remote
  <2> QED  BY <2>1, OneFault DEF Fault
<1>10. x7 \in Seq(S) /\ (x7 = <<>> <=> s.branch \notin UnsafeBranches)
  <2>1. s.branch \in UnsafeBranches => [where |-> name, key |-> "GIT_REPO_BRANCH"] \in S
    BY <1>2, ConfigAssumption DEF WrongIn, Keys, UnsafeBranches, NoStrings
  <2> QED  BY <2>1, OneFault DEF Fault
<1>11. x8 \in Seq(S) /\ (x8 = <<>> <=> s.token \notin NotGiven)
  <2>1. s.token \in NotGiven => [where |-> name, key |-> "GIT_REPO_TOKEN"] \in S
    BY <1>2 DEF WrongIn, Keys, NotGiven, NoStrings
  <2> QED  BY <2>1, OneFault DEF Fault
<1>12. x9 \in Seq(S) /\ (x9 = <<>> <=> s.url # Placeholder)
  <2>1. s.url = Placeholder => [where |-> name, key |-> "GIT_REPO_URL"] \in S
    BY <1>2, ConfigAssumption DEF WrongIn, Keys, Placeholder, NoStrings
  <2> QED  BY <2>1, OneFault DEF Fault, UrlFault
<1>13. x10 \in Seq(S) /\ (x10 = <<>> <=> s.token # Placeholder)
  <2>1. s.token = Placeholder => [where |-> name, key |-> "GIT_REPO_TOKEN"] \in S
    BY <1>2 DEF WrongIn, Keys, Placeholder, NoStrings
  <2> QED  BY <2>1, OneFault DEF Fault, TokenFault
<1>14. SectionFaults(name, s) = x1 \o x2 \o x3 \o x4 \o x5 \o x6 \o x7 \o x8 \o x9 \o x10
  BY DEF SectionFaults
<1> HIDE DEF x1, x2, x3, x4, x5, x6, x7, x8, x9, x10, S
<1> DEFINE p2 == x1 \o x2
           p3 == p2 \o x3
           p4 == p3 \o x4
           p5 == p4 \o x5
           p6 == p5 \o x6
           p7 == p6 \o x7
           p8 == p7 \o x8
           p9 == p8 \o x9
           p10 == p9 \o x10
<1>20. p2 \in Seq(S) /\ (p2 = <<>> => x1 = <<>> /\ x2 = <<>>)
  BY <1>3, <1>4, Concatenation
<1>21. p3 \in Seq(S) /\ (p3 = <<>> => p2 = <<>> /\ x3 = <<>>)
  <2> HIDE DEF p2
  <2> QED  BY <1>20, <1>6, Concatenation
<1>22. p4 \in Seq(S) /\ (p4 = <<>> => p3 = <<>> /\ x4 = <<>>)
  <2> HIDE DEF p3
  <2> QED  BY <1>21, <1>7, Concatenation
<1>23. p5 \in Seq(S) /\ (p5 = <<>> => p4 = <<>> /\ x5 = <<>>)
  <2> HIDE DEF p4
  <2> QED  BY <1>22, <1>8, Concatenation
<1>24. p6 \in Seq(S) /\ (p6 = <<>> => p5 = <<>> /\ x6 = <<>>)
  <2> HIDE DEF p5
  <2> QED  BY <1>23, <1>9, Concatenation
<1>25. p7 \in Seq(S) /\ (p7 = <<>> => p6 = <<>> /\ x7 = <<>>)
  <2> HIDE DEF p6
  <2> QED  BY <1>24, <1>10, Concatenation
<1>26. p8 \in Seq(S) /\ (p8 = <<>> => p7 = <<>> /\ x8 = <<>>)
  <2> HIDE DEF p7
  <2> QED  BY <1>25, <1>11, Concatenation
<1>27. p9 \in Seq(S) /\ (p9 = <<>> => p8 = <<>> /\ x9 = <<>>)
  <2> HIDE DEF p8
  <2> QED  BY <1>26, <1>12, Concatenation
<1>28. p10 \in Seq(S) /\ (p10 = <<>> => p9 = <<>> /\ x10 = <<>>)
  <2> HIDE DEF p9
  <2> QED  BY <1>27, <1>13, Concatenation
<1>29. SectionFaults(name, s) = p10
  BY <1>14
<1> HIDE DEF p2, p3, p4, p5, p6, p7, p8, p9, p10
<1>30. AssetFaults(name, f) \in Seq(S)
  BY <1>28, <1>29 DEF AssetFaults
<1>31. ASSUME AssetFaults(name, f) = <<>>, name \in Configured(f)
       PROVE  /\ x1 = <<>> /\ x2 = <<>> /\ x3 = <<>> /\ x4 = <<>> /\ x5 = <<>>
              /\ x6 = <<>> /\ x7 = <<>> /\ x8 = <<>> /\ x9 = <<>> /\ x10 = <<>>
  BY <1>31, <1>20, <1>21, <1>22, <1>23, <1>24, <1>25, <1>26, <1>27, <1>28, <1>29
     DEF AssetFaults
<1>32. ASSUME AssetFaults(name, f) = <<>>, name \in Configured(f)
       PROVE  git /\ s \in Sound
  <2>1. git /\ s # NoSection /\ s # Absent
    BY <1>31, <1>32, <1>3, <1>9 DEF Configured
  <2>2. s \in [url : Urls \cup BadUrls \cup {"missing"},
              branch : Branches \cup BadBranches \cup {"missing"},
              token : {"token", "missing"} \cup BadTokens]
    BY <1>1, <2>1 DEF AnySection, Sections
  <2>3. s.url \in Urls
    BY <1>31, <1>32, <2>2, <1>4, <1>6, <1>12, ConfigAssumption DEF NotGiven
  <2>4. s.branch \in Branches
    BY <1>31, <1>32, <2>1, <2>2, <1>7, <1>8, <1>10, ConfigAssumption DEF NotGiven
  <2>5. s.token = "token"
    BY <1>31, <1>32, <2>2, <1>11, <1>13, ConfigAssumption DEF NotGiven
  <2>6. s = [url |-> s.url, branch |-> s.branch, token |-> s.token]
    BY <2>2
  <2> QED  BY <2>1, <2>3, <2>4, <2>5, <2>6 DEF Sound
<1> QED  BY <1>30, <1>32 DEF S

\* So it is with a whole file; that two assets have one remote is said of
\* sound sections only.
LEMMA FaultsOfFile ==
    ASSUME NEW f \in AnyFile, git \in BOOLEAN
    PROVE  /\ Faults(f) \in Seq(Answers)
           /\ Faults(f) # <<>> => Wrong(Head(Faults(f)), f)
           /\ Faults(f) = <<>> <=>
                /\ f.text \notin {"notUtf8", "unreadable", "notToml"} /\ f.assets
                /\ \A name \in Names : AssetFaults(name, f) = <<>>
                /\ Configured(f) # {} /\ ~SameRemote(f)
                /\ Configured(f) \cap inside = {}
<1> DEFINE S == Earlier(f)
           q1 == Escape(f.text = "notUtf8")
           q2 == Fault("file", "text", f.text \in {"unreadable", "notToml"})
           q3 == Fault("file", "assets", ~f.assets)
           q4 == AssetFaults(AssetNames[1], f)
           q5 == AssetFaults(AssetNames[2], f)
           q6 == Fault("file", "assets", NothingConfigured(f))
           q7 == Fault("file", "remote", SameRemote(f))
           q8 == Fault("file", "place", Configured(f) \cap inside # {})
<1>1. /\ AssetNames[1] = "private" /\ AssetNames[2] = "common"
      /\ Names = {"private", "common"}
  BY TwoNames DEF AssetNames
<1>2. ASSUME NEW a \in {[where |-> "none", key |-> "none"],
                        [where |-> "file", key |-> "text"],
                        [where |-> "file", key |-> "assets"],
                        [where |-> "file", key |-> "place"]},
             Wrong(a, f)
      PROVE  a \in S
  BY <1>2 DEF Earlier, Answers, Places, Keys, Remote
<1>3. q1 \in Seq(S) /\ (q1 = <<>> <=> f.text # "notUtf8")
  <2>1. [where |-> "none", key |-> "none"] \in S
    BY <1>1, <1>2 DEF Wrong, WrongIn
  <2> QED  BY <2>1, OneFault DEF Escape, Fault
<1>4. q2 \in Seq(S) /\ (q2 = <<>> <=> f.text \notin {"unreadable", "notToml"})
  <2>1. f.text \in {"unreadable", "notToml"} => [where |-> "file", key |-> "text"] \in S
    BY <1>1, <1>2 DEF Wrong, WrongIn
  <2> QED  BY <2>1, OneFault DEF Fault
<1>5. q3 \in Seq(S) /\ (q3 = <<>> <=> f.assets)
  <2>1. ~f.assets => [where |-> "file", key |-> "assets"] \in S
    BY <1>1, <1>2 DEF Wrong, WrongIn
  <2> QED  BY <2>1, OneFault DEF Fault
<1>6. q4 \in Seq(S) /\ q5 \in Seq(S)
  BY <1>1, FaultsOfSection
<1>7. q6 \in Seq(S) /\ (q6 = <<>> <=> Configured(f) # {})
  <2>1. Configured(f) = {} => [where |-> "file", key |-> "assets"] \in S
    BY <1>1, <1>2 DEF Wrong, WrongIn
  <2> QED  BY <2>1, OneFault DEF Fault, NothingConfigured
<1>8. q8 \in Seq(S) /\ (q8 = <<>> <=> Configured(f) \cap inside = {})
  <2>1. Configured(f) \cap inside # {} => [where |-> "file", key |-> "place"] \in S
    BY <1>1, <1>2 DEF Wrong, WrongIn
  <2> QED  BY <2>1, OneFault DEF Fault
<1>9. q7 \in Seq({Remote}) /\ (q7 = <<>> <=> ~SameRemote(f))
  BY OneFault DEF Fault, Remote
<1>10. Faults(f) = q1 \o q2 \o q3 \o q4 \o q5 \o q6 \o q7 \o q8
  BY DEF Faults
<1>11. q4 = <<>> /\ q5 = <<>> <=> \A name \in Names : AssetFaults(name, f) = <<>>
  BY <1>1
<1> HIDE DEF q1, q2, q3, q4, q5, q6, q7, q8, S
<1> DEFINE p2 == q1 \o q2
           p3 == p2 \o q3
           p4 == p3 \o q4
           p5 == p4 \o q5
           p6 == p5 \o q6
           p7 == p6 \o q7
           p8 == p7 \o q8
<1>20. p2 \in Seq(S) /\ (p2 = <<>> <=> q1 = <<>> /\ q2 = <<>>)
  BY <1>3, <1>4, Concatenation
<1>21. p3 \in Seq(S) /\ (p3 = <<>> <=> p2 = <<>> /\ q3 = <<>>)
  <2> HIDE DEF p2
  <2> QED  BY <1>20, <1>5, Concatenation
<1>22. p4 \in Seq(S) /\ (p4 = <<>> <=> p3 = <<>> /\ q4 = <<>>)
  <2> HIDE DEF p3
  <2> QED  BY <1>21, <1>6, Concatenation
<1>23. p5 \in Seq(S) /\ (p5 = <<>> <=> p4 = <<>> /\ q5 = <<>>)
  <2> HIDE DEF p4
  <2> QED  BY <1>22, <1>6, Concatenation
<1>24. p6 \in Seq(S) /\ (p6 = <<>> <=> p5 = <<>> /\ q6 = <<>>)
  <2> HIDE DEF p5
  <2> QED  BY <1>23, <1>7, Concatenation
<1>25. S \subseteq Answers /\ Remote \in Answers /\ \A a \in S : Wrong(a, f)
  BY DEF S, Earlier, Answers, Places, Keys, Remote
<1>26. /\ p6 \in Seq(Answers) /\ q7 \in Seq(Answers) /\ q8 \in Seq(Answers)
  <2> HIDE DEF p6
  <2> QED  BY <1>8, <1>9, <1>24, <1>25
<1>27. /\ p7 \in Seq(Answers) /\ (p7 = <<>> <=> p6 = <<>> /\ q7 = <<>>)
       /\ p6 # <<>> => Head(p7) = Head(p6)
       /\ p6 = <<>> => p7 = q7
  <2> HIDE DEF p6
  <2> QED  BY <1>26, Concatenation
<1>28. /\ p8 \in Seq(Answers) /\ (p8 = <<>> <=> p7 = <<>> /\ q8 = <<>>)
       /\ p7 # <<>> => Head(p8) = Head(p7)
       /\ p7 = <<>> => p8 = q8
  <2>1. p7 \in Seq(Answers) /\ q8 \in Seq(Answers)
    BY <1>26, <1>27
  <2> HIDE DEF p7
  <2> QED  BY <2>1, Concatenation
<1>29. Faults(f) = p8
  BY <1>10
<1> HIDE DEF p2, p3, p4, p5, p6, p7, p8
<1>30. p8 = <<>> <=>
         /\ q1 = <<>> /\ q2 = <<>> /\ q3 = <<>> /\ q4 = <<>> /\ q5 = <<>>
         /\ q6 = <<>> /\ q7 = <<>> /\ q8 = <<>>
  BY <1>20, <1>21, <1>22, <1>23, <1>24, <1>27, <1>28
<1>31. ASSUME q7 # <<>>, p6 = <<>>
       PROVE  Wrong(Remote, f)
  <2>1. SameRemote(f) /\ \A name \in Names : AssetFaults(name, f) = <<>>
    BY <1>31, <1>9, <1>11, <1>20, <1>21, <1>22, <1>23, <1>24
  <2>2. \A name \in Names : f.asset[name] \in Sound
    BY <2>1, FaultsOfSection DEF SameRemote
  <2> QED  BY <1>1, <2>1, <2>2 DEF Wrong, WrongIn, Remote
<1>32. ASSUME p8 # <<>> PROVE Wrong(Head(p8), f)
  <2>1. CASE p6 # <<>>
    <3>1. Head(p8) = Head(p6) /\ Head(p6) \in S
      BY <2>1, <1>24, <1>27, <1>28
    <3> QED  BY <3>1, <1>25
  <2>2. CASE p6 = <<>> /\ q7 # <<>>
    <3>1. Head(p8) = Head(q7) /\ Head(q7) \in {Remote}
      BY <2>2, <1>9, <1>27, <1>28
    <3> QED  BY <2>2, <3>1, <1>31
  <2>3. CASE p6 = <<>> /\ q7 = <<>>
    <3>1. p8 = q8 /\ Head(q8) \in S
      BY <2>3, <1>8, <1>32, <1>27, <1>28
    <3> QED  BY <3>1, <1>25
  <2> QED  BY <2>1, <2>2, <2>3
<1>33. p8 = <<>> <=>
         /\ f.text \notin {"notUtf8", "unreadable", "notToml"} /\ f.assets
         /\ \A name \in Names : AssetFaults(name, f) = <<>>
         /\ Configured(f) # {} /\ ~SameRemote(f)
         /\ Configured(f) \cap inside = {}
  BY <1>30, <1>3, <1>4, <1>5, <1>7, <1>8, <1>9, <1>11
<1> QED  BY <1>28, <1>29, <1>32, <1>33

-----------------------------------------------------------------------------
(* The inductive invariant.                                                  *)

\* What was named once and is not what the service said last is mended.
MendedIn(p, name, s) ==
    /\ p = <<name, "section">> => s # NoSection
    /\ p = <<name, "GIT_REPO_URL">> => s.url \in Urls
    /\ p = <<name, "GIT_REPO_BRANCH">> => s.branch \in Branches
    /\ p = <<name, "GIT_REPO_TOKEN">> => s.token = "token"
MendedInFile(p, f) ==
    /\ p = <<"file", "text">> => f.text = "toml"
    /\ p = <<"file", "assets">> => f.assets /\ Configured(f) # {}
    /\ p = <<"file", "remote">> =>
         ~SameRemote(f) /\ \A name \in Names : f.asset[name] \in Sound
    /\ \A name \in Names : MendedIn(p, name, f.asset[name])
Mended(p) ==
    /\ p \in Places \X Keys /\ p # <<"none", "none">>
    /\ p = <<"option", "interval">> => option = Unset
    /\ p = <<"file", "place">> => inside = {}
    /\ p = <<"git", "git">> => git
    /\ MendedInFile(p, file)

Types ==
    /\ file \in AnyFile /\ option \in Intervals \cup {Unset}
    /\ inside \subseteq Names /\ git \in BOOLEAN /\ interval \in 1 .. Longest
Said == answer \in Answers /\ Wrong(answer, file)
Effective == IF option = Unset THEN FileInterval(file) ELSE option.value
Content ==
    /\ answer = Accepted /\ Faults(file) = <<>> /\ interval = Effective
    /\ option = Unset \/ ~Problem(option)
IInv ==
    /\ Types
    /\ answer = Unread \/ Said \/ Content
    /\ \A p \in named : p = <<answer.where, answer.key>> \/ Mended(p)
    /\ <<"none", "unread">> \notin named

\* What is wrong is not mended.
LEMMA WrongNotMended ==
    ASSUME NEW a \in Answers, Wrong(a, file), Mended(<<a.where, a.key>>)
    PROVE  FALSE
<1>1. Names = {"private", "common"}
  BY TwoNames
<1>2. a.where \in Places /\ a.key \in Keys
  BY DEF Answers
<1>3. ASSUME NEW name \in Names, WrongIn(a, name, file.asset[name]) PROVE FALSE
  BY <1>3 DEF WrongIn, Mended, MendedInFile, MendedIn
<1> QED  BY <1>1, <1>2, <1>3 DEF Wrong, Mended, MendedInFile

LEMMA IntervalsInRange ==
    ASSUME Types
    PROVE  /\ FileInterval(file) \in 1 .. Longest
           /\ option # Unset /\ ~Problem(option) => option.value \in 1 .. Longest
<1>1. ASSUME NEW v \in Intervals, ~Problem(v) PROVE v.value \in 1 .. Longest
  BY <1>1 DEF Problem
<1>2. file.interval \in Intervals /\ option \in Intervals \cup {Unset}
  BY DEF Types, AnyFile
<1>3. Default \in 1 .. Longest
  BY DEF Default, Longest
<1> QED  BY <1>1, <1>2, <1>3 DEF FileInterval

\* What the service says when it is started.
LEMMA StartSays ==
    ASSUME Types, Start
    PROVE  /\ Types' /\ (Said' \/ Content')
           /\ named' = named \cup {<<answer'.where, answer'.key>>}
<1> DEFINE all == OptionFault \o Faults(file)
<1>1. OptionFault \in Seq(Answers)
      /\ (OptionFault = <<>> <=> option = Unset \/ ~Problem(option))
      /\ (OptionFault # <<>> => Wrong(Head(OptionFault), file))
  <2> DEFINE a == [where |-> "option", key |-> "interval"]
  <2>1. OptionFault = IF option # Unset /\ Problem(option) THEN <<a>> ELSE <<>>
    BY DEF OptionFault, Fault
  <2>2. a \in Answers
    BY DEF Answers, Places, Keys
  <2>3. option # Unset => Wrong(a, file)
    BY DEF Wrong
  <2> HIDE DEF a
  <2>4. <<a>> \in Seq(Answers) /\ <<a>> # <<>> /\ Head(<<a>>) = a /\ <<>> \in Seq(Answers)
    BY <2>2
  <2> QED  BY <2>1, <2>3, <2>4
<1>2. /\ Faults(file) \in Seq(Answers)
      /\ Faults(file) # <<>> => Wrong(Head(Faults(file)), file)
  BY FaultsOfFile DEF Types
<1>3. /\ all \in Seq(Answers)
      /\ all = <<>> <=> OptionFault = <<>> /\ Faults(file) = <<>>
      /\ OptionFault # <<>> => Head(all) = Head(OptionFault)
      /\ OptionFault = <<>> => all = Faults(file)
  BY <1>1, <1>2, Concatenation
<1>4. all # <<>> => Wrong(Head(all), file) /\ Head(all) \in Answers
  BY <1>1, <1>2, <1>3
<1>5. UNCHANGED <<file, inside, git, option>> /\ answer' = FirstOf(all)
  BY DEF Start
<1>6. CASE all = <<>>
  <2>1. /\ answer' = Accepted /\ Faults(file) = <<>>
        /\ option = Unset \/ ~Problem(option)
    BY <1>1, <1>3, <1>5, <1>6 DEF FirstOf
  <2>2. interval' = Effective
    BY <2>1 DEF Start, Effective
  <2>3. interval' \in 1 .. Longest
    BY <2>1, <2>2, IntervalsInRange DEF Effective
  <2>4. Faults(file)' = Faults(file) /\ Effective' = Effective
    BY <1>5 DEF Faults, AssetFaults, SectionFaults, UrlFault, TokenFault, Fault,
       Escape, Configured, SameRemote, NothingConfigured, Effective, FileInterval
  <2> QED  BY <1>5, <2>1, <2>2, <2>3, <2>4 DEF Types, Content, Start
<1>7. CASE all # <<>>
  <2>1. answer' = Head(all) /\ answer' \in Answers /\ Wrong(answer', file)
    BY <1>4, <1>5, <1>7 DEF FirstOf
  <2>2. answer' # Accepted
    <3> HIDE DEF all
    <3>1. answer'.key \in Keys
      BY <2>1 DEF Answers
    <3> QED  BY <3>1 DEF Accepted, Keys
  <2>3. interval' = interval
    BY <2>2 DEF Start
  <2>4. Wrong(answer, file)'
    BY <1>5, <2>1 DEF Wrong, WrongIn, Configured, SameRemote
  <2> QED  BY <1>5, <2>1, <2>3, <2>4 DEF Types, Said, Start
<1> QED  BY <1>6, <1>7

\* Starting names nothing that is mended.
LEMMA StartKeeps ==
    ASSUME IInv, Start
    PROVE  /\ IInv'
           /\ answer' # Accepted => <<answer'.where, answer'.key>> \notin named
<1>1. Types' /\ (Said' \/ Content') /\ named' = named \cup {<<answer'.where, answer'.key>>}
  BY StartSays DEF IInv
<1>2. answer = Unread /\ UNCHANGED <<file, inside, git, option>>
  BY DEF Start
<1>3. \A p \in named : Mended(p)
  BY <1>2 DEF IInv, Unread
<1>4. ASSUME NEW p, Mended(p) PROVE Mended(p)'
  BY <1>2, <1>4 DEF Mended, MendedInFile, MendedIn, Configured, SameRemote
<1>5. answer'.key # "unread"
  BY <1>1 DEF Said, Content, Accepted, Answers, Keys
<1>6. IInv'
  BY <1>1, <1>2, <1>3, <1>4, <1>5 DEF IInv
<1>7. ASSUME answer' # Accepted, <<answer'.where, answer'.key>> \in named
      PROVE  FALSE
  <2>1. answer' \in Answers /\ Wrong(answer, file)'
    BY <1>1, <1>7 DEF Said, Content
  <2>2. Wrong(answer', file)
    BY <1>2, <2>1 DEF Wrong, WrongIn, Configured, SameRemote
  <2>3. Mended(<<answer'.where, answer'.key>>)
    BY <1>3, <1>7
  <2>4. \A a \in Answers : Wrong(a, file) => ~Mended(<<a.where, a.key>>)
    BY WrongNotMended
  <2> QED  BY <2>1, <2>2, <2>3, <2>4
<1> QED  BY <1>6, <1>7

\* What mending one key of a section leaves: every other key of it and every
\* other section stay as they are.
LEMMA SectionMended ==
    ASSUME Types, NEW name \in Names,
           NEW key \in {"section", "GIT_REPO_URL", "GIT_REPO_BRANCH", "GIT_REPO_TOKEN"},
           Mend(name, key),
           key # "section" => file.asset[name] \notin {Absent, NoSection}
    PROVE  /\ file' \in AnyFile
           /\ file'.text = file.text /\ file'.assets = file.assets
           /\ file'.asset[name] \notin {Absent, NoSection}
           /\ \A other \in Names \ {name} : file'.asset[other] = file.asset[other]
           /\ \/ key = "section" /\ file'.asset[name] = Unfilled
              \/ /\ key = "GIT_REPO_URL"
                 /\ \E url \in Urls \ {file.asset[name].url} :
                       file'.asset[name] = [file.asset[name] EXCEPT !.url = url]
              \/ /\ key = "GIT_REPO_BRANCH"
                 /\ \E branch \in Branches \ {file.asset[name].branch} :
                       file'.asset[name] = [file.asset[name] EXCEPT !.branch = branch]
              \/ /\ key = "GIT_REPO_TOKEN"
                 /\ file'.asset[name] = [file.asset[name] EXCEPT !.token = "token"]
<1> DEFINE s == file.asset[name]
<1>1. file \in AnyFile /\ s \in AnySection
  BY DEF Types, AnyFile
<1>2. ASSUME NEW new \in AnySection, new \notin {Absent, NoSection},
             file' = [file EXCEPT !.asset[name] = new]
      PROVE  /\ file' \in AnyFile
             /\ file'.text = file.text /\ file'.assets = file.assets
             /\ file'.asset[name] \notin {Absent, NoSection}
             /\ \A other \in Names \ {name} : file'.asset[other] = file.asset[other]
             /\ file'.asset[name] = new
  BY <1>1, <1>2 DEF AnyFile
<1>3. CASE key = "section"
  <2>1. Unfilled \in AnySection /\ Unfilled \notin {Absent, NoSection}
    <3>1. Unfilled.branch = "missing" /\ Absent.branch = "absent" /\ NoSection.branch = "absent"
      BY DEF Unfilled, Absent, NoSection
    <3> QED  BY <3>1 DEF AnySection, Unfilled
  <2>2. file' = [file EXCEPT !.asset[name] = Unfilled]
    BY <1>3 DEF Mend
  <2> QED  BY <1>2, <1>3, <2>1, <2>2
<1>4. s \notin {Absent, NoSection} => s \in Sections \cup
        [url : Urls \cup {"missing"}, branch : Branches \cup {"missing"},
         token : {"token", "missing"}]
  BY <1>1 DEF AnySection
<1>5. CASE key = "GIT_REPO_URL"
  <2>1. PICK url \in Urls \ {s.url} : file' = [file EXCEPT !.asset[name].url = url]
    BY <1>5 DEF Mend
  <2> DEFINE new == [s EXCEPT !.url = url]
  <2>2. new \in AnySection
    BY <1>4, <1>5 DEF AnySection, Sections
  <2>3. new.url = url /\ url \notin NoStrings
    BY <1>4, <1>5, ConfigAssumption DEF Sections
  <2>4. Absent.url = "absent" /\ NoSection.url = "scalar"
    BY DEF Absent, NoSection
  <2>5. file' = [file EXCEPT !.asset[name] = new]
    BY <1>1, <2>1 DEF AnyFile
  <2> HIDE DEF new
  <2>6. new \notin {Absent, NoSection}
    BY <2>3, <2>4 DEF NoStrings
  <2>7. file'.asset[name] = new
    BY <1>2, <2>2, <2>5, <2>6
  <2> QED  BY <1>2, <1>5, <2>2, <2>5, <2>6, <2>7 DEF new
<1>6. CASE key = "GIT_REPO_BRANCH"
  <2>1. PICK branch \in Branches \ {s.branch} :
           file' = [file EXCEPT !.asset[name].branch = branch]
    BY <1>6 DEF Mend
  <2> DEFINE new == [s EXCEPT !.branch = branch]
  <2>2. new \in AnySection
    BY <1>4, <1>6 DEF AnySection, Sections
  <2>3. new.branch = branch /\ branch \notin NoStrings
    BY <1>4, <1>6, ConfigAssumption DEF Sections
  <2>4. Absent.branch = "absent" /\ NoSection.branch = "absent"
    BY DEF Absent, NoSection
  <2>5. file' = [file EXCEPT !.asset[name] = new]
    BY <1>1, <2>1 DEF AnyFile
  <2> HIDE DEF new
  <2>6. new \notin {Absent, NoSection}
    BY <2>3, <2>4 DEF NoStrings
  <2>7. file'.asset[name] = new
    BY <1>2, <2>2, <2>5, <2>6
  <2> QED  BY <1>2, <1>6, <2>2, <2>5, <2>6, <2>7 DEF new
<1>7. CASE key = "GIT_REPO_TOKEN"
  <2>1. file' = [file EXCEPT !.asset[name].token = "token"]
    BY <1>7 DEF Mend
  <2> DEFINE new == [s EXCEPT !.token = "token"]
  <2>2. new \in AnySection
    BY <1>4, <1>7 DEF AnySection, Sections
  <2>3. new.token = "token"
    BY <1>4, <1>7 DEF Sections
  <2>4. Absent.token = "absent" /\ NoSection.token = "absent"
    BY DEF Absent, NoSection
  <2>5. file' = [file EXCEPT !.asset[name] = new]
    BY <1>1, <2>1 DEF AnyFile
  <2> HIDE DEF new
  <2>6. new \notin {Absent, NoSection}
    BY <2>3, <2>4
  <2>7. file'.asset[name] = new
    BY <1>2, <2>2, <2>5, <2>6
  <2> QED  BY <1>2, <1>7, <2>2, <2>5, <2>6, <2>7 DEF new
<1> QED  BY <1>3, <1>5, <1>6, <1>7

\* What mending a key leaves wrong or mended elsewhere.
LEMMA SectionKeeps ==
    ASSUME Types, NEW name \in Names,
           NEW key \in {"section", "GIT_REPO_URL", "GIT_REPO_BRANCH", "GIT_REPO_TOKEN"},
           Mend(name, key), WrongIn([where |-> name, key |-> key], name, file.asset[name]),
           NEW p \in Places \X Keys, p = <<name, key>> \/ MendedInFile(p, file)
    PROVE  file' \in AnyFile /\ MendedInFile(p, file')
<1> DEFINE s == file.asset[name]
           new == file'.asset[name]
<1>1. s \in AnySection
  BY DEF Types, AnyFile
<1>2. key # "section" => s \notin {Absent, NoSection}
  BY DEF WrongIn, Absent, NoSection, NoStrings
<1>3. key = "section" => s = NoSection
  BY DEF WrongIn
<1>4. /\ file' \in AnyFile
      /\ file'.text = file.text /\ file'.assets = file.assets
      /\ new \notin {Absent, NoSection}
      /\ \A other \in Names \ {name} : file'.asset[other] = file.asset[other]
  BY <1>2, SectionMended
<1>5. /\ key = "section" => new = Unfilled
      /\ key = "GIT_REPO_URL" => \E url \in Urls : new = [s EXCEPT !.url = url]
      /\ key = "GIT_REPO_BRANCH" =>
           \E branch \in Branches : new = [s EXCEPT !.branch = branch]
      /\ key = "GIT_REPO_TOKEN" => new = [s EXCEPT !.token = "token"]
  BY <1>2, SectionMended
<1>6. s \notin Sound
  <2>1. NoSection.url = "scalar"
    BY DEF NoSection
  <2> QED  BY <1>3, <2>1, ConfigAssumption DEF WrongIn, Sound, NoStrings
<1>7. ASSUME p = <<name, key>> \/ MendedIn(p, name, s)
      PROVE  MendedIn(p, name, new)
  <2>1. CASE key = "section"
    <3>1. s.url = "scalar" /\ s.branch = "absent" /\ s.token = "absent"
      BY <1>3, <2>1 DEF NoSection, Absent
    <3>2. p \notin {<<name, "GIT_REPO_URL">>, <<name, "GIT_REPO_BRANCH">>,
                   <<name, "GIT_REPO_TOKEN">>}
      BY <1>7, <2>1, <3>1, ConfigAssumption DEF MendedIn, NoStrings
    <3> QED  BY <1>4, <3>2 DEF MendedIn
  <2> DEFINE Fields == [url : Urls \cup BadUrls \cup {"missing"},
                        branch : Branches \cup BadBranches \cup {"missing"},
                        token : {"token", "missing"} \cup BadTokens]
  <2>2. key # "section" => s \in Fields
    BY <1>1, <1>2 DEF AnySection, Sections
  <2>3. CASE key = "GIT_REPO_URL"
    <3>1. new.url \in Urls /\ new.branch = s.branch /\ new.token = s.token
      BY <1>5, <2>2, <2>3
    <3> HIDE DEF new, s
    <3> QED  BY <1>4, <1>7, <2>3, <3>1 DEF MendedIn
  <2>4. CASE key = "GIT_REPO_BRANCH"
    <3>1. new.branch \in Branches /\ new.url = s.url /\ new.token = s.token
      BY <1>5, <2>2, <2>4
    <3> HIDE DEF new, s
    <3> QED  BY <1>4, <1>7, <2>4, <3>1 DEF MendedIn
  <2>5. CASE key = "GIT_REPO_TOKEN"
    <3>1. new.token = "token" /\ new.url = s.url /\ new.branch = s.branch
      BY <1>5, <2>2, <2>5
    <3> HIDE DEF new, s
    <3> QED  BY <1>4, <1>7, <2>5, <3>1 DEF MendedIn
  <2> QED  BY <2>1, <2>3, <2>4, <2>5
<1>8. \A other \in Names : MendedIn(p, other, file'.asset[other])
  <2>1. ASSUME NEW other \in Names \ {name} PROVE MendedIn(p, other, file'.asset[other])
    <3>1. file'.asset[other] = file.asset[other]
      BY <1>4
    <3>2. p = <<name, key>> => MendedIn(p, other, file'.asset[other])
      BY DEF MendedIn
    <3> QED  BY <3>1, <3>2 DEF MendedInFile
  <2>2. MendedIn(p, name, new)
    BY <1>7 DEF MendedInFile
  <2> QED  BY <2>1, <2>2
<1>9. Configured(file') # {}
  BY <1>4 DEF Configured
<1>10. name \notin {"file", "option", "git", "none"}
  BY TwoNames
<1>11. p # <<"file", "remote">>
  BY <1>6, <1>10 DEF MendedInFile
<1> HIDE DEF s, new
<1>12. (p = <<"file", "text">> => file'.text = "toml")
       /\ (p = <<"file", "assets">> => file'.assets)
  BY <1>4, <1>10 DEF MendedInFile
<1> QED  BY <1>4, <1>8, <1>9, <1>11, <1>12 DEF MendedInFile

\* The same for what is mended between the sections.
LEMMA RemoteKeeps ==
    ASSUME Types, NEW name \in Names, NEW key \in {"GIT_REPO_URL", "GIT_REPO_BRANCH"},
           Mend(name, key), SameRemote(file),
           \A other \in Names : file.asset[other] \in Sound,
           NEW p, p = <<"file", "remote">> \/ MendedInFile(p, file)
    PROVE  file' \in AnyFile /\ MendedInFile(p, file')
<1> DEFINE s == file.asset[name]
           new == file'.asset[name]
<1>1. s \in Sound /\ s \notin {Absent, NoSection}
  <2>1. s.token = "token" /\ Absent.token = "absent" /\ NoSection.token = "absent"
    BY DEF Sound, Absent, NoSection
  <2> QED  BY <2>1
<1>2. /\ file' \in AnyFile
      /\ file'.text = file.text /\ file'.assets = file.assets
      /\ new \notin {Absent, NoSection}
      /\ \A other \in Names \ {name} : file'.asset[other] = file.asset[other]
      /\ key = "GIT_REPO_URL" =>
            \E url \in Urls \ {s.url} : new = [s EXCEPT !.url = url]
      /\ key = "GIT_REPO_BRANCH" =>
            \E branch \in Branches \ {s.branch} : new = [s EXCEPT !.branch = branch]
  BY <1>1, SectionMended
<1>3. new \in Sound /\ (new.url # s.url \/ new.branch # s.branch)
  BY <1>1, <1>2 DEF Sound
<1> HIDE DEF s, new
<1>4. \A other \in Names : file'.asset[other] \in Sound
  BY <1>2, <1>3 DEF new
<1>5. ~SameRemote(file')
  <2>1. Names = {"private", "common"}
    BY TwoNames
  <2>2. /\ file.asset["private"].url = file.asset["common"].url
        /\ file.asset["private"].branch = file.asset["common"].branch
    BY DEF SameRemote
  <2>3. CASE name = "private"
    BY <1>2, <1>3, <2>1, <2>2, <2>3 DEF SameRemote, s, new
  <2>4. CASE name = "common"
    BY <1>2, <1>3, <2>1, <2>2, <2>4 DEF SameRemote, s, new
  <2> QED  BY <2>1, <2>3, <2>4
<1>6. Configured(file') # {}
  BY <1>2 DEF Configured, new
<1>7. \A other \in Names : MendedIn(p, other, file'.asset[other])
  <2>1. ASSUME NEW other \in Names PROVE MendedIn(p, other, file'.asset[other])
    <3>1. file'.asset[other] # NoSection
      <4>1. file'.asset[other].token = "token" /\ NoSection.token = "absent"
        BY <1>4 DEF Sound, NoSection, Absent
      <4> QED  BY <4>1
    <3> QED  BY <1>4, <3>1 DEF MendedIn, Sound
  <2> QED  BY <2>1
<1>8. (p = <<"file", "text">> => file'.text = "toml")
      /\ (p = <<"file", "assets">> => file'.assets)
  BY <1>2 DEF MendedInFile
<1> QED  BY <1>2, <1>4, <1>5, <1>6, <1>7, <1>8 DEF MendedInFile

\* A file that is TOML now, or has a table of assets, and with it a section.
LEMMA TextKeeps ==
    ASSUME Types, file' = [file EXCEPT !.text = "toml"],
           NEW p, p = <<"file", "text">> \/ MendedInFile(p, file)
    PROVE  file' \in AnyFile /\ MendedInFile(p, file')
<1>1. /\ file' \in AnyFile /\ file'.text = "toml" /\ file'.assets = file.assets
      /\ file'.asset = file.asset
  BY DEF Types, AnyFile
<1>2. Configured(file') = Configured(file) /\ SameRemote(file') = SameRemote(file)
  BY <1>1 DEF Configured, SameRemote
<1>3. ASSUME p = <<"file", "text">> PROVE \A name \in Names : MendedIn(p, name, file'.asset[name])
  BY <1>3, TwoNames DEF MendedIn
<1> QED  BY <1>1, <1>2, <1>3 DEF MendedInFile

LEMMA AssetsKeep ==
    ASSUME Types, NEW name \in Names, ~file.assets \/ Configured(file) = {},
           file' = [file EXCEPT !.assets = TRUE,
                                !.asset[name] = IF Configured(file) = {}
                                                THEN Unfilled ELSE @],
           NEW p, p = <<"file", "assets">> \/ MendedInFile(p, file)
    PROVE  file' \in AnyFile /\ MendedInFile(p, file')
<1>1. file \in AnyFile /\ Names = {"private", "common"}
  BY TwoNames DEF Types
<1>2. Unfilled \in AnySection /\ Unfilled \notin {Absent, NoSection}
  <2>1. Unfilled.branch = "missing" /\ Absent.branch = "absent" /\ NoSection.branch = "absent"
    BY DEF Unfilled, Absent, NoSection
  <2> QED  BY <2>1 DEF AnySection, Unfilled
<1>3. CASE Configured(file) = {}
  <2>1. /\ file' \in AnyFile /\ file'.text = file.text /\ file'.assets
        /\ file'.asset = [file.asset EXCEPT ![name] = Unfilled]
    BY <1>1, <1>2, <1>3 DEF AnyFile
  <2>2. Configured(file') # {}
    BY <1>1, <1>2, <2>1 DEF Configured, AnyFile
  <2>3. \A other \in Names : file.asset[other] = Absent
    BY <1>3 DEF Configured
  <2>4. Absent.url \notin Urls /\ Absent.branch \notin Branches /\ Absent.token # "token"
    BY ConfigAssumption DEF Absent, NoStrings
  <2>5. ASSUME MendedInFile(p, file)
        PROVE  /\ p # <<"file", "remote">> /\ p # <<"file", "assets">>
               /\ \A other \in Names :
                     p \notin {<<other, "GIT_REPO_URL">>, <<other, "GIT_REPO_BRANCH">>,
                              <<other, "GIT_REPO_TOKEN">>}
    BY <1>1, <1>3, <2>3, <2>4, <2>5 DEF MendedInFile, MendedIn, SameRemote, Sound
  <2>6. \A other \in Names : file'.asset[other] # NoSection
    <3>1. Absent # NoSection
      <4>1. Absent.url = "absent" /\ NoSection.url = "scalar"
        BY DEF Absent, NoSection
      <4> QED  BY <4>1
    <3> QED  BY <1>1, <1>2, <2>1, <2>3, <3>1 DEF AnyFile
  <2>7. CASE p = <<"file", "assets">>
    BY <1>1, <2>1, <2>2, <2>6, <2>7 DEF MendedInFile, MendedIn
  <2>8. CASE MendedInFile(p, file)
    <3>1. \A other \in Names : MendedIn(p, other, file'.asset[other])
      BY <2>5, <2>6, <2>8 DEF MendedIn
    <3>2. p = <<"file", "text">> => file'.text = "toml"
      BY <2>1, <2>8 DEF MendedInFile
    <3> QED  BY <2>1, <2>5, <2>8, <3>1, <3>2 DEF MendedInFile
  <2> QED  BY <2>1, <2>7, <2>8
<1>4. CASE Configured(file) # {}
  <2>1. /\ file' \in AnyFile /\ file'.text = file.text /\ file'.assets
        /\ file'.asset = file.asset
    BY <1>1, <1>4 DEF AnyFile
  <2>2. Configured(file') = Configured(file) /\ SameRemote(file') = SameRemote(file)
    BY <2>1 DEF Configured, SameRemote
  <2>3. p = <<"file", "assets">> => \A other \in Names : MendedIn(p, other, file'.asset[other])
    BY <1>1 DEF MendedIn
  <2>4. CASE p = <<"file", "assets">>
    BY <1>4, <2>1, <2>2, <2>3, <2>4 DEF MendedInFile
  <2>5. CASE MendedInFile(p, file)
    BY <1>4, <2>1, <2>2, <2>5 DEF MendedInFile
  <2> QED  BY <2>4, <2>5
<1> QED  BY <1>3, <1>4

\* Mending what was named last leaves all mended that was named before.
LEMMA MendKeeps ==
    ASSUME IInv, MendNamed
    PROVE  IInv'
<1>1. Types /\ Said /\ answer' = Unread /\ UNCHANGED <<named, interval>>
  BY DEF IInv, MendNamed, Content
<1>2. Names = {"private", "common"}
  BY TwoNames
<1> DEFINE q == <<answer.where, answer.key>>
<1>3. q \in Places \X Keys
  BY <1>1 DEF Said, Answers
<1>4. SUFFICES ASSUME NEW p \in Places \X Keys, p = q \/ Mended(p), p # <<"none", "none">>
               PROVE  Types' /\ Mended(p)'
  <2>1. q # <<"none", "none">>
    BY <1>2 DEF MendNamed
  <2>2. \A p \in named : p \in Places \X Keys /\ (p = q \/ Mended(p)) /\ p # <<"none", "none">>
    BY <1>3, <2>1 DEF IInv, Mended
  <2>3. \A p \in named : Mended(p)'
    BY <1>4, <2>2
  <2>4. Types'
    BY <1>3, <1>4, <2>1
  <2> QED  BY <1>1, <2>3, <2>4 DEF IInv
<1>5. ASSUME file' \in AnyFile, UNCHANGED <<inside, git, option>>, MendedInFile(p, file'),
             answer.where \in {"file"} \cup Names, answer.key # "place"
      PROVE  Types' /\ Mended(p)'
  <2>1. Types'
    BY <1>1, <1>5 DEF Types
  <2>2. MendedInFile(p, file)'
    BY <1>5 DEF MendedInFile, MendedIn, Configured, SameRemote
  <2> QED  BY <1>2, <1>4, <1>5, <2>1, <2>2 DEF Mended
<1>6. CASE answer = [where |-> "option", key |-> "interval"]
  <2>1. option' = Unset /\ UNCHANGED <<file, inside, git>>
    BY <1>2, <1>6 DEF MendNamed
  <2>2. MendedInFile(p, file)'
    BY <1>2, <1>4, <1>6, <2>1 DEF Mended, MendedInFile, MendedIn, Configured, SameRemote
  <2> QED  BY <1>1, <1>4, <1>6, <2>1, <2>2 DEF Types, Mended
<1>7. CASE answer = [where |-> "file", key |-> "place"]
  <2>1. inside' = {} /\ UNCHANGED <<file, git, option>>
    BY <1>2, <1>7 DEF MendNamed, MendFile
  <2>2. MendedInFile(p, file)'
    BY <1>2, <1>4, <1>7, <2>1 DEF Mended, MendedInFile, MendedIn, Configured, SameRemote
  <2> QED  BY <1>1, <1>4, <1>7, <2>1, <2>2 DEF Types, Mended
<1>8. CASE answer = [where |-> "git", key |-> "git"]
  <2>1. git' = TRUE /\ UNCHANGED <<file, inside, option>>
    BY <1>2, <1>8 DEF MendNamed
  <2>2. MendedInFile(p, file)'
    BY <1>2, <1>4, <1>8, <2>1 DEF Mended, MendedInFile, MendedIn, Configured, SameRemote
  <2> QED  BY <1>1, <1>4, <1>8, <2>1, <2>2 DEF Types, Mended
<1>9. CASE answer = [where |-> "file", key |-> "text"]
  <2>1. file' = [file EXCEPT !.text = "toml"] /\ UNCHANGED <<inside, git, option>>
    BY <1>2, <1>9 DEF MendNamed, MendFile
  <2>2. file' \in AnyFile /\ MendedInFile(p, file')
    BY <1>1, <1>4, <1>9, <2>1, TextKeeps DEF Mended
  <2> QED  BY <1>5, <1>9, <2>1, <2>2
<1>10. CASE answer = [where |-> "file", key |-> "assets"]
  <2>1. PICK name \in Names :
           file' = [file EXCEPT !.assets = TRUE,
                                !.asset[name] = IF Configured(file) = {}
                                                THEN Unfilled ELSE @]
    BY <1>2, <1>10 DEF MendNamed, MendFile
  <2>2. UNCHANGED <<inside, git, option>>
    BY <1>2, <1>10 DEF MendNamed
  <2>3. ~file.assets \/ Configured(file) = {}
    BY <1>1, <1>2, <1>10 DEF Said, Wrong, WrongIn
  <2>4. file' \in AnyFile /\ MendedInFile(p, file')
    BY <1>1, <1>4, <1>10, <2>1, <2>3, AssetsKeep DEF Mended
  <2> QED  BY <1>5, <1>10, <2>2, <2>4
<1>11. CASE answer = [where |-> "file", key |-> "remote"]
  <2>1. PICK name \in Names, key \in {"GIT_REPO_URL", "GIT_REPO_BRANCH"} : Mend(name, key)
    BY <1>2, <1>11 DEF MendNamed, MendFile
  <2>2. UNCHANGED <<inside, git, option>>
    BY <1>2, <1>11 DEF MendNamed
  <2>3. SameRemote(file) /\ \A name1 \in Names : file.asset[name1] \in Sound
    BY <1>1, <1>2, <1>11 DEF Said, Wrong, WrongIn
  <2>4. file' \in AnyFile /\ MendedInFile(p, file')
    BY <1>1, <1>4, <1>11, <2>1, <2>3, RemoteKeeps DEF Mended
  <2> QED  BY <1>5, <1>11, <2>2, <2>4
<1>12. ASSUME NEW name \in Names, WrongIn(answer, name, file.asset[name])
       PROVE  Types' /\ Mended(p)'
  <2>1. PICK key \in {"section", "GIT_REPO_URL", "GIT_REPO_BRANCH", "GIT_REPO_TOKEN"} :
           answer = [where |-> name, key |-> key]
    BY <1>12 DEF WrongIn
  <2>2. Mend(name, key) /\ UNCHANGED <<inside, git, option>>
    BY <1>2, <2>1 DEF MendNamed
  <2>3. file' \in AnyFile /\ MendedInFile(p, file')
    BY <1>1, <1>4, <1>12, <2>1, <2>2, SectionKeeps DEF Mended
  <2> QED  BY <1>5, <2>1, <2>2, <2>3
<1>13. answer # [where |-> "none", key |-> "none"]
  BY <1>2 DEF MendNamed
<1> QED  BY <1>1, <1>6, <1>7, <1>8, <1>9, <1>10, <1>11, <1>12, <1>13 DEF Said, Wrong

LEMMA InitHolds == Init => IInv
<1> SUFFICES ASSUME Init PROVE IInv
  OBVIOUS
<1>1. file \in AnyFile
  BY DEF Init, Files, AnyFile, AnySection
<1>2. Default \in 1 .. Longest
  BY DEF Default, Longest
<1> QED  BY <1>1, <1>2 DEF Init, IInv, Types

LEMMA Inductive == Spec => []IInv
<1>1. IInv /\ UNCHANGED vars => IInv'
  <2> SUFFICES ASSUME IInv, UNCHANGED vars PROVE IInv'
    OBVIOUS
  <2> USE DEF vars
  <2>1. Types'
    BY DEF IInv, Types
  <2>2. Said => Said'
    BY DEF Said, Wrong, WrongIn, Configured, SameRemote
  <2>3. Content => Content'
    BY DEF Content, Faults, AssetFaults, SectionFaults, UrlFault, TokenFault, Fault,
       Escape, Configured, SameRemote, NothingConfigured, Effective, FileInterval
  <2>4. ASSUME NEW p, Mended(p) PROVE Mended(p)'
    BY <2>4 DEF Mended, MendedInFile, MendedIn, Configured, SameRemote
  <2> QED  BY <2>1, <2>2, <2>3, <2>4 DEF IInv
<1>2. IInv /\ [Next]_vars => IInv'
  BY <1>1, StartKeeps, MendKeeps DEF Next
<1> QED  BY <1>2, InitHolds, PTL DEF Spec

-----------------------------------------------------------------------------
(* The theorems.                                                             *)

\* load_config and load_sync_interval: every variable keeps its type, and the
\* interval is always one a loop can wait.
THEOREM ConfigTypes == Spec => []ConfigTypeOK
<1>1. IInv => ConfigTypeOK
  BY DEF IInv, Types, AnyFile, AnySection, ConfigTypeOK
<1> QED  BY <1>1, Inductive, PTL

\* load_config: what is accepted can be backed up.
THEOREM AcceptedUsable == Spec => []AcceptedIsUsable
<1>1. IInv => AcceptedIsUsable
  <2> SUFFICES ASSUME IInv, answer = Accepted PROVE AcceptedIsUsable
    BY DEF AcceptedIsUsable
  <2>1. Types /\ Content
    BY DEF IInv, Said, Answers, Accepted, Keys, Unread
  <2>2. /\ file.text \notin {"notUtf8", "unreadable", "notToml"} /\ file.assets
        /\ \A name \in Names : AssetFaults(name, file) = <<>>
        /\ Configured(file) # {} /\ ~SameRemote(file)
        /\ Configured(file) \cap inside = {}
    BY <2>1, FaultsOfFile DEF Types, Content
  <2>3. file.text = "toml"
    BY <2>1, <2>2, ConfigAssumption DEF Types, AnyFile
  <2>4. \A name \in Configured(file) : git /\ file.asset[name] \in Sound
    BY <2>1, <2>2, FaultsOfSection DEF Types, Configured
  <2>5. ASSUME NEW name \in Configured(file), NEW other \in Configured(file) \ {name}
        PROVE  \/ file.asset[name].url # file.asset[other].url
               \/ file.asset[name].branch # file.asset[other].branch
    <3>1. Configured(file) = Names
      BY <2>5, TwoNames DEF Configured
    <3> QED  BY <2>2, <2>5, <3>1, TwoNames DEF SameRemote
  <2> QED  BY <2>2, <2>3, <2>4, <2>5 DEF AcceptedIsUsable, Sound
<1> QED  BY <1>1, Inductive, PTL

\* ASSET_NAMES: a file that is accepted is accepted without either section.
THEOREM IndependentSections == Spec => []SectionsAreIndependent
<1>1. IInv => SectionsAreIndependent
  <2> SUFFICES ASSUME IInv, answer = Accepted, Configured(file) = Names, NEW name \in Names
               PROVE  Faults([file EXCEPT !.asset[name] = Absent]) = <<>>
    BY DEF SectionsAreIndependent
  <2> DEFINE f == [file EXCEPT !.asset[name] = Absent]
  <2>1. Types /\ Content
    BY DEF IInv, Said, Answers, Accepted, Keys, Unread
  <2>2. /\ file.text \notin {"notUtf8", "unreadable", "notToml"} /\ file.assets
        /\ \A other \in Names : AssetFaults(other, file) = <<>>
        /\ Configured(file) # {} /\ ~SameRemote(file)
        /\ Configured(file) \cap inside = {}
    BY <2>1, FaultsOfFile DEF Types, Content
  <2>3. /\ f \in AnyFile /\ f.text = file.text /\ f.assets = file.assets
        /\ f.asset = [file.asset EXCEPT ![name] = Absent]
    BY <2>1 DEF Types, AnyFile, AnySection
  <2> HIDE DEF f
  <2>4. Configured(f) = Names \ {name}
    BY <2>1, <2>3 DEF Configured, Types, AnyFile
  <2>5. \A other \in Names : AssetFaults(other, f) = <<>>
    <3>1. AssetFaults(name, f) = <<>>
      BY <2>4 DEF AssetFaults
    <3>2. ASSUME NEW other \in Names \ {name} PROVE AssetFaults(other, f) = <<>>
      <4>1. f.asset[other] = file.asset[other] /\ other \in Configured(f)
        BY <2>1, <2>3, <2>4 DEF Types, AnyFile
      <4> QED  BY <2>2, <4>1 DEF AssetFaults
    <3> QED  BY <3>1, <3>2
  <2>6. Configured(f) # {} /\ Configured(f) # Names /\ Configured(f) \cap inside = {}
    BY <2>2, <2>4, TwoNames
  <2>7. Faults(f) = <<>>
    BY <2>1, <2>2, <2>3, <2>5, <2>6, FaultsOfFile DEF Types, SameRemote
  <2> QED  BY <2>7 DEF f
<1> QED  BY <1>1, Inductive, PTL

\* sync_interval_problem: the loop waits as long as it was told to.
THEOREM WaitsAsGiven == Spec => []IntervalAsGiven
<1>1. IInv => IntervalAsGiven
  <2> SUFFICES ASSUME IInv, answer = Accepted PROVE IntervalAsGiven
    BY DEF IntervalAsGiven
  <2>1. Types /\ Content
    BY DEF IInv, Said, Answers, Accepted, Keys, Unread
  <2>2. \A v \in Intervals \cup {Unset} :
           ~Problem(v) <=> v.kind = "int" /\ v.value >= 1 /\ v.value <= Longest
    <3>1. Unset.kind = "unset"
      BY DEF Unset
    <3>2. \A v \in Intervals : v.value \in Int
      BY ConfigAssumption
    <3>3. Longest \in Int
      BY DEF Longest
    <3>4. ASSUME NEW v \in Intervals
          PROVE  v.value \in 1 .. Longest <=> v.value >= 1 /\ v.value <= Longest
      BY <3>2, <3>3
    <3> QED  BY <3>1, <3>4 DEF Problem
  <2>3. file.interval \in Intervals /\ option \in Intervals \cup {Unset}
    BY <2>1 DEF Types, AnyFile
  <2> QED  BY <2>1, <2>2, <2>3 DEF IntervalAsGiven, Content, Effective, FileInterval
<1> QED  BY <1>1, Inductive, PTL

\* ConfigError: nothing the user has mended is named again.
THEOREM NamedOnce == Spec => NothingNamedTwice
<1>1. IInv /\ [Next]_vars /\ answer = Unread /\ answer' # Accepted /\ UNCHANGED vars
        => <<answer'.where, answer'.key>> \notin named
  BY DEF IInv, vars, Unread
<1>2. IInv /\ [Next]_vars =>
        (answer = Unread /\ answer' # Accepted
           => <<answer'.where, answer'.key>> \notin named)
  BY <1>1, StartKeeps DEF Next, MendNamed
<1> QED  BY <1>2, Inductive, PTL DEF Spec, NothingNamedTwice
====
