----------------------------- MODULE JobMatching -----------------------------
(***************************************************************************)
(* How the career assistant ranks the listings of a tenant for a seeker:   *)
(* the rule score (career-match-scoring.util.ts), the verdicts of the AI   *)
(* on the best listings, which are kept and used again                     *)
(* (career-match-rerank.service.ts), and what it learns from the listings  *)
(* the seeker applies to or dismisses (career-match-learning.util.ts).     *)
(*                                                                         *)
(* Points are counted in hundredths.  A text is a sequence of words, a     *)
(* place or skill a model value; ratios are rounded down to a hundredth of *)
(* a point.  Listings do not change while the seeker is matched.           *)
(***************************************************************************)
EXTENDS Integers, Sequences, FiniteSets, FiniteSetsExt, SequencesExt

CONSTANTS
  Listings,       \* the sequence of active listings, newest first
  Seekers,        \* the seekers one of whom is matched
  Skills,         \* skills that may be added to a profile
  Related,        \* [skill -> skills that count as related]
  Categories,     \* sets of skills of one kind
  Near,           \* <<place, city>> that name one place, or a state and its city
  Places, Roles,  \* places and roles that may be added to a profile
  AiScore(_, _),  \* what the AI makes of a seeker and a listing, 0..100
  TopN,           \* listings the AI is asked about
  MaxAdjust,      \* bound on what is learned
  KeptCompanies,  \* blocked companies that are kept (30)
  KeptTokens,     \* blocked words that are kept (40)
  Matchers,       \* matches that may be under way at once
  MaxEditions     \* bound on the writes of the profile

Absent == -1        \* a number that is not given

VARIABLES
  seeker,         \* the profile: skills, places, roles, years, salary, work, notice
  prefs,          \* match_learning: boosts and blocked lists
  dismissals,     \* [company -> feedback rows 'dismissed' of it]
  edition,        \* updatedAt of the profile
  table,          \* career_job_matches: [listing -> score and the AI's verdict]
  matching        \* [matcher -> what it read, until it persists]

vars == <<seeker, prefs, dismissals, edition, table, matching>>

Jobs == 1..Len(Listings)
Companies == {Listings[j].company : j \in Jobs}
Words == UNION {Range(Listings[j].title) : j \in Jobs}
Tokens == UNION {Listings[j].must \cup Listings[j].nice : j \in Jobs}

Idle == [at |-> "idle"]
NoRow == [score |-> Absent, ai |-> [score |-> Absent, key |-> Absent, rule |-> Absent]]
NoPrefs == [company |-> [c \in Companies |-> 0], title |-> [w \in Words |-> 0],
            skill |-> [s \in Tokens |-> 0], blocked |-> <<>>, words |-> <<>>]

Init ==
  /\ seeker \in Seekers
  /\ prefs = NoPrefs
  /\ dismissals = [c \in Companies |-> 0]
  /\ edition = 0
  /\ table = [j \in Jobs |-> NoRow]
  /\ matching = [m \in Matchers |-> Idle]

-----------------------------------------------------------------------------
(* The rule score.                                                           *)

(* Mutant of Strength: skills of the same kind are looked at first.          *)
StrengthByKind(skills, req) ==
  CASE \E kind \in Categories : req \in kind /\ kind \cap skills # {} -> 45
    [] OTHER -> IF req \in skills THEN 100
                ELSE IF skills \cap Related[req] # {} THEN 70 ELSE 0

(* skillMatchStrength, in hundredths.                                        *)
Strength(skills, req) ==
  IF req \in skills THEN 100
  ELSE IF skills \cap Related[req] # {} THEN 70
  ELSE IF \E kind \in Categories : req \in kind /\ kind \cap skills # {} THEN 45 ELSE 0

(* The points of one bucket of scoreSkills, out of 4000.                     *)
Bucket(skills, required) ==
  LET strength(req) == Strength(skills, req)
  IN (40 * MapThenSumSet(strength, required)) \div Cardinality(required)

(* scoreSkills: what a listing must have weighs more than what is nice.      *)
SkillPoints(skills, job) ==
  CASE job.must = {} /\ job.nice = {} -> 1000
    [] job.must # {} /\ job.nice = {} -> Bucket(skills, job.must)
    [] job.must = {} /\ job.nice # {} -> Bucket(skills, job.nice)
    [] OTHER -> (72 * Bucket(skills, job.must) + 28 * Bucket(skills, job.nice)) \div 100

(* profileSeniorityLevel and LEVEL_RANK; listings give their rank, 1 where   *)
(* their level is unknown.                                                   *)
Rank(years) == Cardinality({least \in {2, 5, 10} : years > least})

(* scoreExperienceAndSeniority.                                              *)
ExperiencePoints(years, job) ==
  LET gap == Rank(years) - job.rank
      fit == CASE years < job.minExp -> Min({700, (700 * years) \div job.minExp})
               [] years >= job.minExp /\ years <= job.maxExp -> 1400
               [] OTHER -> 1050
  IN IF gap <= -2 THEN Min({fit, 420}) ELSE fit

SeniorityPoints(years, job) ==
  LET gap == Rank(years) - job.rank
  IN CASE gap = 0 -> 600 [] gap = 1 -> 510 [] gap = -1 -> 330 [] gap >= 2 -> 210 [] OTHER -> 150

(* scoreSalary, in tenths of a lakh.                                         *)
SalaryPoints(expected, job) ==
  CASE Absent \in {expected, job.minPay, job.maxPay} -> 750
    [] OTHER -> IF expected >= job.minPay /\ 100 * expected <= 115 * job.maxPay THEN 1500
                ELSE IF expected <= job.maxPay THEN 1125 ELSE 225

(* locationMatches: the same city, another name of it, or its state.         *)
LocationMatches(place, city) == place = city \/ <<place, city>> \in Near

(* scoreLocation.                                                            *)
LocationPoints(places, work, job) ==
  CASE work = "remote" -> (CASE job.mode = "remote" -> 1500 [] job.mode = "hybrid" -> 1275 [] OTHER -> 0)
    [] work = "hybrid" /\ job.mode = "hybrid" -> 1500
    [] work = "hybrid" /\ job.mode = "remote" -> 1200
    [] OTHER ->
         IF places = {} THEN 750
         ELSE IF \E p \in places : LocationMatches(p, job.city) THEN 1500
         ELSE IF job.mode \in {"remote", "hybrid"} /\ work # "onsite" THEN 975 ELSE 0

Within(short, long) ==
  \E i \in 1..Len(long) : i + Len(short) - 1 <= Len(long)
                          /\ SubSeq(long, i, i + Len(short) - 1) = short

(* How much of a role a title names, in percent (tokenOverlapScore).         *)
RoleFit(role, title) ==
  IF Within(role, title) \/ Within(title, role) THEN 100
  ELSE (100 * Cardinality({i \in DOMAIN role : role[i] \in Range(title)})) \div Len(role)

(* scoreRoleTitle.                                                           *)
RolePoints(roles, job) ==
  IF roles = {} THEN 250
  ELSE LET best == Max({RoleFit(role, job.title) : role \in roles})
       IN CASE best >= 85 -> 500
            [] best >= 50 /\ best < 85 -> 350
            [] best >= 30 /\ best < 50 -> 200
            [] OTHER -> 0

(* scoreNotice, in days.                                                     *)
NoticePoints(notice, job) ==
  CASE Absent \in {notice, job.notice} -> 250
    [] OTHER -> IF notice <= job.notice THEN 500 ELSE 0

(* matchProfileToJobs, for one listing.                                      *)
RuleScore(s, job) ==
  Min({100, (SkillPoints(s.skills, job) + ExperiencePoints(s.years, job)
             + SeniorityPoints(s.years, job) + SalaryPoints(s.salary, job)
             + LocationPoints(s.places, s.work, job) + RolePoints(s.roles, job)
             + NoticePoints(s.notice, job) + 50) \div 100})

-----------------------------------------------------------------------------
(* The listings that are scored: relevantJobsForProfile looks for a role, a  *)
(* skill or a place, then for a keyword, and takes all if it finds few.      *)
Mentions(job) == Range(job.title) \cup job.must \cup job.nice \cup job.says

Relevant(s, job) ==
  \/ \E role \in s.roles : Range(role) \cap Range(job.title) # {}
  \/ s.skills \cap (Range(job.title) \cup job.says) # {}
  \/ job.city \in s.places
  \/ job.mode = "remote" /\ s.work = "remote"

(* searchByKeyword with the words of getProfileSearchKeywords.               *)
KeywordHit(s, job) ==
  \/ s.skills \cap Mentions(job) # {}
  \/ \E role \in s.roles : Within(role, job.title)

Pool(s) ==
  LET relevant == {j \in Jobs : Relevant(s, Listings[j])}
      hits == {j \in Jobs : KeywordHit(s, Listings[j])}
  IN IF s.roles = {} /\ s.skills = {} /\ s.places = {} THEN Jobs
     ELSE IF Cardinality(relevant) >= 3 THEN relevant
     ELSE IF Cardinality(hits) >= 3 THEN hits ELSE Jobs

-----------------------------------------------------------------------------
(* What is learned.                                                          *)
Clamp(n, bound) == Max({-bound, Min({bound, n})})

(* computeLearningAdjustment.                                                *)
Adjustment(job, learned) ==
  LET word(w) == IF w \in Range(learned.words) THEN -4 ELSE learned.title[w]
      skill(t) == Max({-2, Min({3, learned.skill[t]})})
  IN IF job.company \in Range(learned.blocked) THEN -MaxAdjust
     ELSE Clamp(learned.company[job.company] + MapThenSumSet(word, Range(job.title))
                  + MapThenSumSet(skill, job.must \cup job.nice), MaxAdjust)

(* applyLearningAdjustments.                                                 *)
Learned(score, job, learned) == Max({0, Min({100, score + Adjustment(job, learned)})})

(* accumulateBoostMaps: the same step for each of some keys, within a cap.   *)
Accumulate(boosts, keys, step, cap) ==
  [k \in DOMAIN boosts |-> IF k \in keys THEN Clamp(boosts[k] + step, cap) ELSE boosts[k]]

(* A list without repetitions, cut off at its limit.                         *)
KeepFirst(kept, new, limit) ==
  LET all == kept \o SelectSeq(new, LAMBDA x : x \notin Range(kept))
  IN SubSeq(all, 1, Min({limit, Len(all)}))

(* learningPatchForPositiveSignal and learningPatchForCoverLetter.           *)
Liked(job, learned, company, other) ==
  [learned EXCEPT
     !.company = Accumulate(@, {job.company}, company, 10),
     !.title = Accumulate(@, Range(job.title), other, 8),
     !.skill = Accumulate(@, job.must \cup job.nice, other, 8)]

(* Mutant of Disliked: the blocked lists of the patch replace the old ones.  *)
DislikedAnew(job, learned, rows) ==
  [learned EXCEPT
     !.company = Accumulate(@, {job.company}, -5, 10),
     !.title = Accumulate(@, Range(job.title), -3, 8),
     !.blocked = IF rows >= 1 THEN <<job.company>> ELSE <<>>,
     !.words = SubSeq(job.title, 1, Min({4, Len(job.title)}))]

(* learningPatchForDismiss, merged.                                          *)
Disliked(job, learned, rows) ==
  LET words == SubSeq(job.title, 1, Min({4, Len(job.title)}))
  IN [learned EXCEPT
        !.company = Accumulate(@, {job.company}, -5, 10),
        !.title = Accumulate(@, Range(words), -3, 8),
        !.blocked = KeepFirst(@, IF rows >= 1 THEN <<job.company>> ELSE <<>>, KeptCompanies),
        !.words = KeepFirst(@, words, KeptTokens)]

(* recordEvent: the row of the event, then the profile.  The dismissals of   *)
(* the company are counted after the row was written, so the first blocks.   *)
Applied(j) ==
  /\ edition < MaxEditions
  /\ prefs' = Liked(Listings[j], prefs, 4, 2)
  /\ edition' = edition + 1
  /\ UNCHANGED <<seeker, dismissals, table, matching>>

CoverLetter(j) ==
  /\ edition < MaxEditions
  /\ prefs' = Liked(Listings[j], prefs, 2, 1)
  /\ edition' = edition + 1
  /\ UNCHANGED <<seeker, dismissals, table, matching>>

Dismissed(j) ==
  LET company == Listings[j].company
  IN /\ edition < MaxEditions
     /\ dismissals' = [dismissals EXCEPT ![company] = @ + 1]
     /\ prefs' = Disliked(Listings[j], prefs, dismissals'[company])
     /\ edition' = edition + 1
     /\ UNCHANGED <<seeker, table, matching>>

(* The profile is edited: a skill, place or role more, another notice.       *)
Better(s) ==
  {[s EXCEPT !.skills = @ \cup {k}] : k \in Skills}
  \cup {[s EXCEPT !.roles = @ \cup {r}] : r \in IF s.roles = {} THEN {} ELSE Roles}
  \cup {[s EXCEPT !.places = @ \cup {p}] : p \in IF s.places = {} THEN {} ELSE Places}
  \cup {[s EXCEPT !.notice = IF @ = Absent THEN Absent ELSE 0]}

EditProfile ==
  /\ edition < MaxEditions
  /\ seeker' \in Better(seeker) \ {seeker}
  /\ edition' = edition + 1
  /\ UNCHANGED <<prefs, dismissals, table, matching>>

-----------------------------------------------------------------------------
(* matchAndPersistForProfile.                                                *)

(* The best listings of a pool, ties in the order of the list.               *)
Best(s, pool) ==
  LET score == [j \in pool |-> RuleScore(s, Listings[j])]
      above(i, j) == score[i] > score[j] \/ (score[i] = score[j] /\ i < j)
  IN {j \in pool : Cardinality({i \in pool : above(i, j)}) < TopN}

(* Up to the answer of the AI: the profile it was called with and the rows   *)
(* of applyAiRerank.                                                         *)
BeginMatch(m) ==
  /\ matching[m] = Idle
  /\ matching' = [matching EXCEPT ![m] =
       [at |-> "asking", seeker |-> seeker, prefs |-> prefs, key |-> edition,
        kept |-> [j \in Jobs |-> table[j].ai]]]
  /\ UNCHANGED <<seeker, prefs, dismissals, edition, table>>

(* A verdict that need not be asked for again.                               *)
KeptVerdict(read, j) ==
  /\ read.kept[j].score # Absent
  /\ read.kept[j].key = read.key
  /\ read.kept[j].rule = RuleScore(read.seeker, Listings[j])

Blend(rule, ai) == Min({100, (60 * rule + 40 * ai + 50) \div 100})

(* The verdict on listing j: the one kept or, if the AI answers, a new one;  *)
(* listings that are not among the best get none.                            *)
Verdict(read, best, j, answered) ==
  LET rule == RuleScore(read.seeker, Listings[j])
  IN IF j \notin best THEN NoRow.ai
     ELSE IF KeptVerdict(read, j) THEN read.kept[j]
     ELSE IF answered THEN [score |-> AiScore(read.seeker, j), key |-> read.key, rule |-> rule]
     ELSE NoRow.ai

(* The scores are blended, adjusted and persisted (persistMatches).          *)
Match(m, answered) ==
  /\ matching[m] # Idle
  /\ LET read == matching[m]
         pool == Pool(read.seeker)
         best == Best(read.seeker, pool)
         rated(j) ==
           LET rule == RuleScore(read.seeker, Listings[j])
               ai == Verdict(read, best, j, answered)
           IN [score |-> Learned(IF ai.score = Absent THEN rule ELSE Blend(rule, ai.score),
                                 Listings[j], read.prefs),
               ai |-> ai]
     IN table' = [j \in Jobs |-> IF j \in pool THEN rated(j) ELSE table[j]]
  /\ matching' = [matching EXCEPT ![m] = Idle]
  /\ UNCHANGED <<seeker, prefs, dismissals, edition>>

Next ==
  \/ EditProfile
  \/ \E j \in Jobs : Applied(j) \/ CoverLetter(j) \/ Dismissed(j)
  \/ \E m \in Matchers :
       \/ BeginMatch(m)
       \/ \E answered \in BOOLEAN : Match(m, answered)

Spec == Init /\ [][Next]_vars

-----------------------------------------------------------------------------
(* A seeker who offers more never scores less: a skill, a further role or    *)
(* place, or no notice (skillMatchStrength ranks the same skill above a      *)
(* related one, and that above one of its kind).  The first role and the     *)
(* first place are left out: who names none is scored in the middle, and may *)
(* score less with one that does not fit.                                    *)
MoreNeverHurts ==
  \A better \in Better(seeker), j \in Jobs :
    RuleScore(better, Listings[j]) >= RuleScore(seeker, Listings[j])

(* Feedback moves every listing the way it points: after a dismissal none    *)
(* is rated higher, after an application or a cover letter none lower        *)
(* ("Previously dismissed this employer", "Preferred employer").             *)
FeedbackPointsOneWay ==
  \A i \in Jobs :
       LET before == Adjustment(Listings[i], prefs)
           after == Adjustment(Listings[i], prefs')
       IN /\ (\E j \in Jobs : Dismissed(j)) => after <= before
          /\ (\E j \in Jobs : Applied(j) \/ CoverLetter(j)) => after >= before
=============================================================================
