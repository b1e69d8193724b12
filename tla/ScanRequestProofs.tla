-------------------------- MODULE ScanRequestProofs -------------------------
(***************************************************************************)
(* Theorems about ScanRequest, for any configurations, requests, sizes and *)
(* caps, and the shipped backends.  The first part says what the registry  *)
(* computes: dedupe keeps the names and resolve_scanners selects           *)
(* configured backends, for the default categories all those of their map, *)
(* which the boot check has accepted.  The inductive invariant IInv then   *)
(* follows a request: a service that serves has a configuration that       *)
(* validates, a scan has a selection that can decide at a cap the file     *)
(* keeps to, a result is one its engine can lead to, and an answer is one  *)
(* of three.                                                               *)
(***************************************************************************)
EXTENDS ScanRequest, Lemmas

-----------------------------------------------------------------------------
(* The names selected.                                                     *)

\* What dedupe has seen after each name, as its recursion computes it.
Seen(s) ==
    LET seen[i \in 0..Len(s)] == IF i = 0 THEN << >> ELSE AddName(seen[i - 1], s[i])
    IN  seen

\* f is that function up to n.
Sees(f, s, n) == f = [i \in 0..n |-> IF i = 0 THEN << >> ELSE AddName(f[i - 1], s[i])]

\* The recursion has a solution at every length.
LEMMA SeenExists ==
    ASSUME NEW s, NEW n \in Nat
    PROVE  \E f : Sees(f, s, n)
<1> DEFINE S == {m \in Nat : \E f : Sees(f, s, m)}
<1>1. 0 \in S
  <2> DEFINE f == [i \in 0..0 |-> << >>]
  <2>1. Sees(f, s, 0)
    BY DEF Sees
  <2> QED
    BY <2>1
<1>2. ASSUME NEW m \in Nat, m \in S PROVE m + 1 \in S
  <2>1. PICK f : Sees(f, s, m)
    BY <1>2
  <2> DEFINE g == [i \in 0..(m + 1) |-> IF i <= m THEN f[i] ELSE AddName(f[m], s[i])]
             h == [i \in 0..(m + 1) |-> IF i = 0 THEN << >> ELSE AddName(g[i - 1], s[i])]
  <2>2. \A i \in 0..m : f[i] = IF i = 0 THEN << >> ELSE AddName(f[i - 1], s[i])
    BY <2>1, Zenon DEF Sees
  <2>3. \A i \in 0..m : g[i] = f[i]
    OBVIOUS
  <2>4. ASSUME NEW i \in 0..(m + 1) PROVE g[i] = h[i]
    <3>1. CASE i = 0
      <4>1. 0 \in 0..m
        OBVIOUS
      <4>2. g[0] = f[0] /\ f[0] = << >>
        BY <2>2, <2>3, <4>1, Zenon
      <4> QED
        BY <3>1, <4>2
    <3>2. CASE i # 0 /\ i <= m
      <4>1. i \in 0..m /\ i - 1 \in 0..m
        BY <3>2
      <4>2. g[i] = f[i] /\ f[i] = AddName(f[i - 1], s[i]) /\ g[i - 1] = f[i - 1]
        BY <2>2, <2>3, <3>2, <4>1, Zenon
      <4>3. h[i] = AddName(g[i - 1], s[i])
        BY <3>2, Zenon
      <4> QED
        BY <4>2, <4>3, Zenon
    <3>3. CASE i = m + 1
      <4>1. i # 0 /\ i - 1 = m /\ m \in 0..m /\ ~ (i <= m)
        BY <3>3
      <4>2. g[i] = AddName(f[m], s[i])
        BY <4>1, Zenon
      <4>3. h[i] = AddName(g[m], s[i])
        BY <4>1, Zenon
      <4> QED
        BY <2>3, <4>1, <4>2, <4>3, Zenon
    <3> QED
      BY <3>1, <3>2, <3>3
  <2>5. g = h
    BY <2>4
  <2>6. Sees(g, s, m + 1)
    BY <2>5, Zenon DEF Sees
  <2> QED
    BY <2>6
<1> HIDE DEF S
<1>3. Nat \subseteq S
  BY <1>1, <1>2, SetInduction
<1> QED
  BY <1>3 DEF S

\* So Seen satisfies its recursion.
LEMMA SeenDef ==
    ASSUME NEW s, Len(s) \in Nat, NEW i \in 0..Len(s)
    PROVE  Seen(s)[i] = IF i = 0 THEN << >> ELSE AddName(Seen(s)[i - 1], s[i])
<1>1. Seen(s) = CHOOSE f : Sees(f, s, Len(s))
  BY DEF Seen, Sees
<1>2. Sees(Seen(s), s, Len(s))
  BY <1>1, SeenExists, Zenon
<1> QED
  BY <1>2, Zenon DEF Sees

\* A name added is there once more or already.
LEMMA AddNameIs ==
    ASSUME NEW A, NEW s \in Seq(A), NEW a \in A
    PROVE  AddName(s, a) \in Seq(A) /\ ToSet(AddName(s, a)) = ToSet(s) \cup {a}
<1>1. CASE a \in ToSet(s)
  BY <1>1 DEF AddName
<1>2. CASE a \notin ToSet(s)
  <2>1. AddName(s, a) = Append(s, a)
    BY <1>2 DEF AddName
  <2>2. /\ Append(s, a) \in Seq(A) /\ DOMAIN Append(s, a) = 1..(Len(s) + 1)
        /\ DOMAIN s = 1..Len(s) /\ Len(s) \in Nat
        /\ \A i \in 1..Len(s) : Append(s, a)[i] = s[i]
        /\ Append(s, a)[Len(s) + 1] = a
    BY AppendProperties, LenProperties
  <2>3. PICK t : t = Append(s, a)
    OBVIOUS
  <2>4. ToSet(t) = ToSet(s) \cup {a}
    BY <2>2, <2>3 DEF ToSet
  <2> QED
    BY <2>1, <2>2, <2>3, <2>4
<1> QED
  BY <1>1, <1>2

\* What has been seen are the names so far.
LEMMA SeenIs ==
    ASSUME NEW A, NEW s \in Seq(A), NEW n \in 0..Len(s)
    PROVE  Seen(s)[n] \in Seq(A) /\ ToSet(Seen(s)[n]) = {s[i] : i \in 1..n}
<1> DEFINE Good(m) == Seen(s)[m] \in Seq(A) /\ ToSet(Seen(s)[m]) = {s[i] : i \in 1..m}
           S == {m \in Nat : m <= Len(s) => Good(m)}
<1>0. Len(s) \in Nat
  BY LenProperties
<1>1. 0 \in S
  <2>1. Seen(s)[0] = << >>
    BY <1>0, SeenDef
  <2>2. Good(0)
    BY <2>1 DEF ToSet
  <2> QED
    BY <2>2
<1>2. ASSUME NEW m \in Nat, m \in S PROVE m + 1 \in S
  <2> SUFFICES ASSUME m + 1 <= Len(s) PROVE Good(m + 1)
    OBVIOUS
  <2>1. /\ m + 1 \in 0..Len(s) /\ m + 1 # 0 /\ (m + 1) - 1 = m /\ m + 1 \in 1..Len(s)
        /\ 1..(m + 1) = (1..m) \cup {m + 1}
    BY <1>0
  <2>2. Good(m)
    BY <1>0, <1>2
  <2>3. Seen(s)[m + 1] = AddName(Seen(s)[m], s[m + 1])
    BY <1>0, <2>1, SeenDef, Zenon
  <2>4. s[m + 1] \in A
    BY <2>1
  <2>5. /\ AddName(Seen(s)[m], s[m + 1]) \in Seq(A)
        /\ ToSet(AddName(Seen(s)[m], s[m + 1])) = ToSet(Seen(s)[m]) \cup {s[m + 1]}
    BY <2>2, <2>4, AddNameIs
  <2>6. {s[i] : i \in 1..(m + 1)} = {s[i] : i \in 1..m} \cup {s[m + 1]}
    BY <2>1
  <2> QED
    BY <2>2, <2>3, <2>5, <2>6
<1> HIDE DEF S
<1>3. Nat \subseteq S
  BY <1>1, <1>2, SetInduction
<1>4. n \in S /\ n <= Len(s)
  BY <1>0, <1>3
<1> QED
  BY <1>4 DEF S

\* Removing duplicates keeps every name.
LEMMA DedupeIs ==
    ASSUME NEW A, NEW s \in Seq(A)
    PROVE  dedupe(s) \in Seq(A) /\ ToSet(dedupe(s)) = ToSet(s)
<1>1. dedupe(s) = Seen(s)[Len(s)]
  BY Zenon DEF dedupe, Seen
<1>2. Len(s) \in Nat /\ Len(s) \in 0..Len(s) /\ DOMAIN s = 1..Len(s)
  BY LenProperties
<1>3. Seen(s)[Len(s)] \in Seq(A) /\ ToSet(Seen(s)[Len(s)]) = {s[i] : i \in 1..Len(s)}
  BY <1>2, SeenIs
<1> QED
  BY <1>1, <1>2, <1>3 DEF ToSet

\* A sequence that is not empty has an element.
LEMMA SomeElement ==
    ASSUME NEW A, NEW s \in Seq(A), s # << >>
    PROVE  ToSet(s) # {}
<1>1. DOMAIN s = 1..Len(s) /\ Len(s) \in Nat /\ Len(s) # 0
  BY EmptySeq, LenProperties
<1>2. 1 \in DOMAIN s
  BY <1>1
<1> QED
  BY <1>2 DEF ToSet

\* The elements of two sequences joined.
LEMMA ConcatElements ==
    ASSUME NEW A, NEW s \in Seq(A), NEW t \in Seq(A)
    PROVE  ToSet(s \o t) = ToSet(s) \cup ToSet(t)
<1>1. PICK u : u = s \o t
  OBVIOUS
<1>2. /\ DOMAIN s = 1..Len(s) /\ DOMAIN t = 1..Len(t) /\ Len(s) \in Nat /\ Len(t) \in Nat
      /\ DOMAIN u = 1..(Len(s) + Len(t))
      /\ \A i \in 1..(Len(s) + Len(t)) : u[i] = IF i <= Len(s) THEN s[i] ELSE t[i - Len(s)]
  BY <1>1, ConcatProperties, LenProperties
<1>3. ASSUME NEW i \in DOMAIN u PROVE u[i] \in ToSet(s) \cup ToSet(t)
  BY <1>2, <1>3 DEF ToSet
<1>4. ASSUME NEW i \in DOMAIN s PROVE s[i] \in ToSet(u)
  <2>1. i \in DOMAIN u /\ u[i] = s[i]
    BY <1>2
  <2> QED
    BY <2>1 DEF ToSet
<1>5. ASSUME NEW i \in DOMAIN t PROVE t[i] \in ToSet(u)
  <2>1. Len(s) + i \in DOMAIN u /\ u[Len(s) + i] = t[i]
    BY <1>2
  <2> QED
    BY <2>1 DEF ToSet
<1>6. ToSet(u) = ToSet(s) \cup ToSet(t)
  BY <1>3, <1>4, <1>5 DEF ToSet
<1> QED
  BY <1>1, <1>6

\* The elements of sequences joined.
LEMMA JoinedElements ==
    ASSUME NEW B, NEW s \in Seq(Seq(B)), NEW n \in 0..Len(s)
    PROVE  ToSet(Joined(s, n)) = UNION {ToSet(s[i]) : i \in 1..n}
<1> DEFINE U(m) == UNION {ToSet(s[i]) : i \in 1..m}
           S == {m \in Nat : m <= Len(s) => ToSet(Joined(s, m)) = U(m)}
<1>0. Len(s) \in Nat
  BY LenProperties
<1>1. 0 \in S
  <2>1. ToSet(Joined(s, 0)) = {}
    BY DEF Joined, ToSet
  <2>2. U(0) = {}
    OBVIOUS
  <2> QED
    BY <2>1, <2>2
<1>2. ASSUME NEW m \in Nat, m \in S PROVE m + 1 \in S
  <2> SUFFICES ASSUME m + 1 <= Len(s) PROVE ToSet(Joined(s, m + 1)) = U(m + 1)
    OBVIOUS
  <2>1. /\ m \in 0..(Len(s) - 1) /\ m \in 0..Len(s) /\ m + 1 \in 1..Len(s)
        /\ 1..(m + 1) = (1..m) \cup {m + 1}
    BY <1>0
  <2>2. ToSet(Joined(s, m)) = U(m)
    BY <1>0, <1>2
  <2>3. Joined(s, m) \in Seq(B) /\ s[m + 1] \in Seq(B)
    BY <2>1, JoinedType
  <2>4. ToSet(Joined(s, m) \o s[m + 1]) = ToSet(Joined(s, m)) \cup ToSet(s[m + 1])
    BY <2>3, ConcatElements
  <2>5. U(m + 1) = U(m) \cup ToSet(s[m + 1])
    BY <2>1, Zenon
  <2> QED
    BY <2>1, <2>2, <2>4, <2>5, JoinedStep
<1> HIDE DEF S
<1>3. Nat \subseteq S
  BY <1>1, <1>2, SetInduction
<1>4. n \in S /\ n <= Len(s)
  BY <1>0, <1>3
<1> QED
  BY <1>4 DEF S

-----------------------------------------------------------------------------
(* What a request selects.                                                 *)

\* The names before duplicates are removed: those of the categories, then those
\* the request names itself.
LEMMA SelectedNames ==
    ASSUME NEW cfg \in Configs, NEW cats \in Seq(STRING), NEW own \in Seq(STRING),
           ToSet(cats) \subseteq DOMAIN cfg.cat_map
    PROVE  LET all == dedupe(FlattenSeq([i \in DOMAIN cats |-> cfg.cat_map[cats[i]]]) \o own)
           IN  /\ all \in Seq(STRING)
               /\ ToSet(all)
                  = (UNION {ToSet(cfg.cat_map[cat]) : cat \in ToSet(cats)}) \cup ToSet(own)
<1> DEFINE s == [i \in DOMAIN cats |-> cfg.cat_map[cats[i]]]
           n == Len(cats)
<1>1. DOMAIN cats = 1..n /\ n \in Nat /\ \A i \in 1..n : cats[i] \in ToSet(cats)
  <2>1. DOMAIN cats = 1..n /\ n \in Nat
    BY LenProperties
  <2> QED
    BY <2>1 DEF ToSet
<1>2. \A i \in 1..n : cfg.cat_map[cats[i]] \in Seq(STRING)
  BY <1>1, RequestAssumption
<1>3. s \in Seq(Seq(STRING)) /\ Len(s) = n /\ \A i \in 1..n : s[i] = cfg.cat_map[cats[i]]
  <2>1. s = [i \in 1..n |-> cfg.cat_map[cats[i]]]
    BY <1>1
  <2>2. \A i \in 1..n : s[i] = cfg.cat_map[cats[i]]
    BY <1>1
  <2>3. s \in [1..n -> Seq(STRING)]
    BY <1>2, <2>1
  <2>4. s \in Seq(Seq(STRING)) /\ Len(s) = n
    BY <1>1, <2>3
  <2> QED
    BY <2>2, <2>4
<1> HIDE DEF s
<1>4. FlattenSeq(s) = Joined(s, n)
  BY <1>3, FlattenSeqJoins
<1>5. n \in 0..Len(s)
  BY <1>1, <1>3
<1>6. /\ Joined(s, n) \in Seq(STRING)
      /\ ToSet(Joined(s, n)) = UNION {ToSet(s[i]) : i \in 1..n}
  BY <1>3, <1>5, JoinedType, JoinedElements
<1>7. UNION {ToSet(s[i]) : i \in 1..n} = UNION {ToSet(cfg.cat_map[cat]) : cat \in ToSet(cats)}
  <2>1. {ToSet(s[i]) : i \in 1..n} = {ToSet(cfg.cat_map[cat]) : cat \in ToSet(cats)}
    <3>1. ToSet(cats) = {cats[i] : i \in 1..n}
      BY <1>1 DEF ToSet
    <3>2. {ToSet(cfg.cat_map[cat]) : cat \in {cats[i] : i \in 1..n}}
          = {ToSet(cfg.cat_map[cats[i]]) : i \in 1..n}
      OBVIOUS
    <3>3. {ToSet(s[i]) : i \in 1..n} = {ToSet(cfg.cat_map[cats[i]]) : i \in 1..n}
      BY <1>3
    <3> QED
      BY <3>1, <3>2, <3>3
  <2> QED
    BY <2>1
<1> DEFINE u == FlattenSeq(s) \o own
<1>8. u \in Seq(STRING)
  BY <1>4, <1>6, ConcatProperties
<1>9. ToSet(u) = (UNION {ToSet(cfg.cat_map[cat]) : cat \in ToSet(cats)}) \cup ToSet(own)
  <2>1. ToSet(Joined(s, n) \o own) = ToSet(Joined(s, n)) \cup ToSet(own)
    BY <1>6, ConcatElements
  <2>2. u = Joined(s, n) \o own
    BY <1>4, Zenon
  <2> QED
    BY <1>6, <1>7, <2>1, <2>2
<1> HIDE DEF u
<1>10. /\ dedupe(u) \in Seq(STRING)
       /\ ToSet(dedupe(u))
          = (UNION {ToSet(cfg.cat_map[cat]) : cat \in ToSet(cats)}) \cup ToSet(own)
  BY <1>8, <1>9, DedupeIs
<1>11. u = FlattenSeq([i \in DOMAIN cats |-> cfg.cat_map[cats[i]]]) \o own
  BY Zenon DEF u, s
<1> QED
  BY <1>10, <1>11

\* The categories a request stands for.
LEMMA CategoriesAre ==
    ASSUME NEW cfg \in Configs, NEW r \in Requests
    PROVE  RequestedCategories(cfg, r.categories, r.scanners) \in Seq(STRING)
  BY RequestAssumption DEF RequestedCategories

\* A selection is a sequence of backends.
LEMMA Selection ==
    ASSUME NEW cfg \in Configs, NEW r \in Requests
    PROVE  resolve_scanners(cfg, r.categories, r.scanners) \in Seq(Builders)
<1>1. PICK cats : cats = RequestedCategories(cfg, r.categories, r.scanners)
  OBVIOUS
<1>2. PICK all :
        all = dedupe(FlattenSeq([i \in DOMAIN cats |-> cfg.cat_map[cats[i]]]) \o r.scanners)
  OBVIOUS
<1>3. resolve_scanners(cfg, r.categories, r.scanners)
      = IF /\ ToSet(cats) \subseteq DOMAIN cfg.cat_map
           /\ \A n \in ToSet(all) : get_scanner(cfg, n)
        THEN all ELSE NoSelection
  BY <1>1, <1>2, Zenon DEF resolve_scanners
<1>4. CASE ToSet(cats) \subseteq DOMAIN cfg.cat_map /\ \A n \in ToSet(all) : get_scanner(cfg, n)
  <2>1. cats \in Seq(STRING) /\ r.scanners \in Seq(STRING)
    BY <1>1, CategoriesAre, RequestAssumption
  <2>2. all \in Seq(STRING)
    BY <1>2, <1>4, <2>1, SelectedNames
  <2>3. \A i \in 1..Len(all) : all[i] \in ToSet(all)
    BY <2>2, LenProperties DEF ToSet
  <2>4. \A i \in 1..Len(all) : all[i] \in Builders
    BY <1>4, <2>3 DEF get_scanner
  <2>5. all \in Seq(Builders)
    BY <2>2, <2>4
  <2> QED
    BY <1>3, <1>4, <2>5
<1>5. CASE ~ (ToSet(cats) \subseteq DOMAIN cfg.cat_map
              /\ \A n \in ToSet(all) : get_scanner(cfg, n))
  BY <1>3, <1>5 DEF NoSelection
<1> QED
  BY <1>4, <1>5

\* The default selection of a configuration that boots is served: it is not empty
\* and clamav decides it only where both caps allow it to, because it then also
\* decides the category it is listed under.
LEMMA DefaultSelection ==
    ASSUME NEW cfg \in Configs, validate_registry(cfg), cfg.default_categories # << >>
    PROVE  LET selection == resolve_scanners(cfg, << >>, << >>)
           IN  /\ selection # NoSelection
               /\ \A cap \in {cfg.max_url_size, cfg.max_upload_size} :
                     assert_size_cap_decidable(cfg, selection, cap)
<1>1. PICK cats : cats = cfg.default_categories
  OBVIOUS
<1>2. PICK all :
        all = dedupe(FlattenSeq([i \in DOMAIN cats |-> cfg.cat_map[cats[i]]]) \o << >>)
  OBVIOUS
<1>3. cats \in Seq(STRING) /\ cats # << >> /\ ToSet(cats) \subseteq DOMAIN cfg.cat_map
  BY <1>1, RequestAssumption DEF validate_registry
<1>4. ToSet(all) = UNION {ToSet(cfg.cat_map[cat]) : cat \in ToSet(cats)}
  <2>1. << >> \in Seq(STRING) /\ ToSet(<< >>) = {}
    BY DEF ToSet
  <2>2. /\ all \in Seq(STRING)
        /\ ToSet(all) = (UNION {ToSet(cfg.cat_map[cat]) : cat \in ToSet(cats)}) \cup ToSet(<< >>)
    BY <1>2, <1>3, <2>1, SelectedNames
  <2> QED
    BY <2>1, <2>2
<1>5. \A cat \in ToSet(cats) : ValidCategory(cfg, cat) /\ cfg.cat_map[cat] \in Seq(STRING)
  BY <1>3, RequestAssumption DEF validate_registry
<1>6. \A n \in ToSet(all) : get_scanner(cfg, n)
  BY <1>4, <1>5 DEF ValidCategory
<1>7. resolve_scanners(cfg, << >>, << >>) = all
  <2>1. RequestedCategories(cfg, << >>, << >>) = cats
    BY <1>1 DEF RequestedCategories
  <2> QED
    BY <1>2, <1>3, <1>6, <2>1, Zenon DEF resolve_scanners
<1>8. all # NoSelection
  <2>1. PICK cat \in ToSet(cats) : TRUE
    BY <1>3, SomeElement
  <2>2. cfg.cat_map[cat] \in Seq(STRING) /\ cfg.cat_map[cat] # << >>
    BY <1>5 DEF ValidCategory
  <2>3. ToSet(cfg.cat_map[cat]) # {}
    BY <2>2, SomeElement
  <2>4. ToSet(all) # {}
    BY <1>4, <2>3
  <2> QED
    BY <2>4 DEF NoSelection, ToSet
<1>9. ASSUME NEW cap \in {cfg.max_url_size, cfg.max_upload_size}
      PROVE  assert_size_cap_decidable(cfg, all, cap)
  <2> SUFFICES ASSUME cap > CLAMAV_MAX_FILE_BYTES, "clamav" \in deciding_scanners(cfg, all)
               PROVE  FALSE
    BY DEF assert_size_cap_decidable
  <2>1. /\ "clamav" \in ToSet(all)
        /\ "clamav" \in cfg.advisory => ToSet(all) \subseteq cfg.advisory
    BY DEF deciding_scanners
  <2>2. PICK cat \in ToSet(cats) : "clamav" \in ToSet(cfg.cat_map[cat])
    BY <1>4, <2>1
  <2>3. ToSet(cfg.cat_map[cat]) \subseteq ToSet(all)
    BY <1>4
  <2>4. "clamav" \in deciding_scanners(cfg, cfg.cat_map[cat])
    BY <2>1, <2>2, <2>3 DEF deciding_scanners
  <2> QED
    BY <1>3, <2>4 DEF validate_registry
<1> QED
  BY <1>7, <1>8, <1>9

-----------------------------------------------------------------------------
(* The inductive invariant.                                                *)

Started == stage \in {"scanning", "answered"}

\* A service past its boot has a configuration that validates; before a request
\* there is neither a selection nor a result.
BootInv ==
    /\ config \in Configs
    /\ stage \in {"boot", "serving", "scanning", "answered", "down"}
    /\ stage \in {"serving", "scanning", "answered"} => validate_registry(config)
    /\ IF Started THEN req \in Requests ELSE req = NoRequest
    /\ stage # "answered" => answer = NoAnswer

\* The selection can decide the file at a cap that the file keeps to.
Admitted ==
    \E cap \in {config.max_url_size, config.max_upload_size} :
        req.size <= cap /\ assert_size_cap_decidable(config, names, cap)

\* There is a selection once scanning has begun.
NamesInv ==
    /\ names \in Seq(Builders)
    /\ stage = "scanning" => Admitted
    /\ ~ Started => names = NoSelection

\* What scanner n may have found in the file of the request.
MayFind(n, r) ==
    \E kind \in Kind(n) :
        r = [category |-> CategoryOf[n], kind |-> kind, score |-> NoScore,
             scored |-> ScoredOf[n], advisory |-> n \in config.advisory]

ResultsInv ==
    /\ DOMAIN results = Builders
    /\ \A n \in Builders : results[n] = NoResult \/ (Started /\ MayFind(n, results[n]))

\* The request was refused, and not for its selection when it left that to the
\* service; the download was too large; or the scanners have answered.
Refused ==
    /\ answer.code \in {400, 413} /\ answer.payload = NoAnswer.payload
    /\ names = NoSelection
    /\ answer.code = 400 /\ config.default_categories # << >> =>
          ~ (req.categories = << >> /\ req.scanners = << >>)

TooLarge ==
    /\ answer = [code |-> 200, payload |-> Payload("error", "file", NoVerdicts)]
    /\ names = NoSelection

Reported ==
    /\ Admitted
    /\ \A n \in ToSet(names) : results[n] # NoResult
    /\ \/ all_errored(Report) /\ answer = [code |-> 503, payload |-> NoAnswer.payload]
       \/ answer = [code |-> 200, payload |-> Payload("none", "none", verdicts(Report))]
       \/ answer = [code |-> 200, payload |-> ReportPayload(Report)]

AnswerInv == stage = "answered" => Refused \/ TooLarge \/ Reported

IInv == BootInv /\ NamesInv /\ ResultsInv /\ AnswerInv

-----------------------------------------------------------------------------

\* The kinds of result an engine can lead to: an infected file is called clean
\* only by clamd, and only past its limit.
LEMMA KindIs ==
    ASSUME NEW n \in Builders
    PROVE  /\ Kind(n) \subseteq {"clean", "malware", "partial", "error"}
           /\ req.infected /\ "clean" \in Kind(n) =>
                 n = "clamav" /\ req.size > CLAMAV_MAX_FILE_BYTES
<1>1. CASE n = "clamav"
  <2>1. Kind(n) = {"error"} \cup {clamav_scan(reply) : reply \in clamd}
    BY <1>1 DEF Kind
  <2>2. \A reply \in ClamdReplies :
           /\ clamav_scan(reply) \in {"clean", "malware", "partial", "error"}
           /\ clamav_scan(reply) = "clean" => reply = "OK"
    BY DEF ClamdReplies, ClamdFailures, clamav_scan
  <2>3. /\ clamd \subseteq ClamdReplies
        /\ req.infected /\ "OK" \in clamd => req.size > CLAMAV_MAX_FILE_BYTES
    BY DEF clamd, Found, ClamdReplies
  <2> QED
    BY <1>1, <2>1, <2>2, <2>3
<1>2. CASE n = "exav"
  <2>1. Kind(n) = {"error"} \cup {exav_scan(reply) : reply \in exavd}
    BY <1>2 DEF Kind
  <2>2. \A reply \in ExavReplies :
           /\ exav_scan(reply) \in {"clean", "malware", "partial", "error"}
           /\ exav_scan(reply) = "clean" => reply = "OK"
    BY DEF ExavReplies, exav_scan
  <2>3. exavd \subseteq ExavReplies /\ (req.infected => "OK" \notin exavd)
    BY DEF exavd, Found, ExavReplies
  <2> QED
    BY <2>1, <2>2, <2>3
<1>3. CASE n = "jcop"
  <2>1. Kind(n) = {"error"} \cup {jcop_verdict(content) : content \in jcop}
    BY <1>3 DEF Kind
  <2>2. \A content \in JcopContents :
           /\ jcop_verdict(content) \in {"clean", "malware", "partial", "error"}
           /\ jcop_verdict(content) = "clean" => content.is_malware = "false"
    BY DEF JcopContents, jcop_verdict
  <2>3. /\ jcop \subseteq JcopContents
        /\ req.infected => \A content \in jcop : content.is_malware # "false"
    BY DEF jcop
  <2> QED
    BY <2>1, <2>2, <2>3
<1> QED
  BY <1>1, <1>2, <1>3, ShippedAssumption

\* Initially.
LEMMA InitInv == Init => IInv
<1> SUFFICES ASSUME Init PROVE IInv
  OBVIOUS
<1>1. BootInv
  BY DEF Init, BootInv, Started
<1>2. NamesInv
  BY DEF Init, NamesInv, NoSelection, Started
<1>3. ResultsInv
  BY DEF Init, ResultsInv
<1>4. AnswerInv
  BY DEF Init, AnswerInv
<1> QED
  BY <1>1, <1>2, <1>3, <1>4 DEF IInv

\* The boot check.
LEMMA BootStep == IInv /\ Boot => IInv'
<1> SUFFICES ASSUME IInv, Boot PROVE IInv'
  OBVIOUS
<1>1. /\ stage = "boot" /\ stage' = IF validate_registry(config) THEN "serving" ELSE "down"
      /\ config' = config /\ req' = req /\ names' = names /\ results' = results
      /\ answer' = answer
  BY DEF Boot
<1>2. ~ Started /\ ~ Started' /\ stage' \in {"serving", "down"}
  BY <1>1 DEF Started
<1>3. BootInv'
  BY <1>1, <1>2 DEF IInv, BootInv
<1>4. NamesInv'
  BY <1>1, <1>2 DEF IInv, NamesInv
<1>5. ResultsInv'
  BY <1>1, <1>2 DEF IInv, ResultsInv
<1>6. AnswerInv'
  BY <1>2 DEF AnswerInv
<1> QED
  BY <1>3, <1>4, <1>5, <1>6 DEF IInv

\* What an endpoint makes of a request: it refuses it, and not for a selection it
\* was to make itself; it finds the download too large; or it starts scanning.
LEMMA EndpointIs ==
    ASSUME IInv, NEW r \in Requests, Receive(r)
    PROVE  \/ stage' = "answered" /\ Refused'
           \/ stage' = "answered" /\ TooLarge'
           \/ /\ stage' = "scanning" /\ Admitted' /\ answer' = answer
              /\ names' \in Seq(Builders)
<1>1. /\ stage = "serving" /\ req' = r /\ config' = config /\ results' = results
      /\ IF r.endpoint = "sync" THEN Scan(r) ELSE ScanAsync(r)
  BY DEF Receive
<1>2. PICK selection : selection = resolve_scanners(config, r.categories, r.scanners)
  OBVIOUS
<1>3. config \in Configs /\ validate_registry(config) /\ names = NoSelection
  BY <1>1 DEF IInv, BootInv, NamesInv, Started
<1>4. selection \in Seq(Builders)
  BY <1>2, <1>3, Selection
<1>5. ASSUME config.default_categories # << >>, r.categories = << >>, r.scanners = << >>
      PROVE  /\ selection # NoSelection
             /\ assert_size_cap_decidable(config, selection, config.max_url_size)
             /\ assert_size_cap_decidable(config, selection, config.max_upload_size)
  BY <1>2, <1>3, <1>5, DefaultSelection
<1>6. /\ r.size \in Nat /\ config.max_url_size \in Nat /\ config.max_upload_size \in Nat
  BY <1>3, RequestAssumption
<1>7. ASSUME NEW code \in {400, 413}, Refuse(code), names' = names,
             code = 400 => \/ selection = NoSelection
                           \/ ~ assert_size_cap_decidable(config, selection, config.max_url_size)
                           \/ ~ assert_size_cap_decidable(config, selection,
                                                          config.max_upload_size)
      PROVE  stage' = "answered" /\ Refused'
  <2>1. stage' = "answered" /\ answer' = [code |-> code, payload |-> NoAnswer.payload]
    BY <1>7 DEF Refuse, Answer
  <2>2. answer'.code = code /\ answer'.payload = NoAnswer.payload
    BY <2>1
  <2> QED
    BY <1>1, <1>3, <1>5, <1>7, <2>1, <2>2 DEF Refused
<1>8. ASSUME NEW cap \in {config.max_url_size, config.max_upload_size}, r.size <= cap,
             assert_size_cap_decidable(config, selection, cap),
             stage' = "scanning", names' = selection, answer' = answer
      PROVE  /\ stage' = "scanning" /\ Admitted' /\ answer' = answer
             /\ names' \in Seq(Builders)
  <2>1. Admitted'
    BY <1>1, <1>8 DEF Admitted
  <2> QED
    BY <1>4, <1>8, <2>1
<1>9. CASE r.endpoint = "sync"
  <2>1. IF selection = NoSelection THEN Refuse(400) /\ UNCHANGED names
        ELSE IF r.size > config.max_upload_size THEN Refuse(413) /\ UNCHANGED names
        ELSE IF ~ assert_size_cap_decidable(config, selection, config.max_upload_size)
        THEN Refuse(400) /\ UNCHANGED names
        ELSE stage' = "scanning" /\ names' = selection /\ UNCHANGED answer
    BY <1>1, <1>2, <1>9, Zenon DEF Scan
  <2> QED
    BY <1>6, <1>7, <1>8, <2>1
<1>10. CASE r.endpoint # "sync"
  <2>1. IF selection = NoSelection
           \/ ~ assert_size_cap_decidable(config, selection, config.max_url_size)
        THEN Refuse(400) /\ UNCHANGED names
        ELSE IF r.size > config.max_url_size
        THEN Answer(200, Payload("error", "file", NoVerdicts)) /\ UNCHANGED names
        ELSE stage' = "scanning" /\ names' = selection /\ UNCHANGED answer
    BY <1>1, <1>2, <1>10, Zenon DEF ScanAsync
  <2>2. Answer(200, Payload("error", "file", NoVerdicts)) /\ names' = names
        => stage' = "answered" /\ TooLarge'
    BY <1>3, Zenon DEF Answer, TooLarge
  <2> QED
    BY <1>6, <1>7, <1>8, <2>1, <2>2
<1> QED
  BY <1>9, <1>10

\* A request arrives.
LEMMA ReceiveStep ==
    ASSUME IInv, NEW r \in Requests, Receive(r)
    PROVE  IInv'
<1>1. stage = "serving" /\ req' = r /\ config' = config /\ results' = results
  BY DEF Receive
<1>2. \/ stage' = "answered" /\ Refused'
      \/ stage' = "answered" /\ TooLarge'
      \/ stage' = "scanning" /\ Admitted' /\ answer' = answer /\ names' \in Seq(Builders)
  BY EndpointIs
<1>3. ~ Started /\ Started'
  BY <1>1, <1>2 DEF Started
<1>4. BootInv'
  BY <1>1, <1>2, <1>3 DEF IInv, BootInv
<1>5. NamesInv'
  <2>1. NoSelection \in Seq(Builders)
    BY DEF NoSelection
  <2>2. names' \in Seq(Builders)
    <3>1. CASE Refused'
      BY <2>1, <3>1 DEF Refused
    <3>2. CASE TooLarge'
      BY <2>1, <3>2 DEF TooLarge
    <3> QED
      BY <1>2, <3>1, <3>2
  <2>3. stage' = "scanning" => Admitted'
    BY <1>2
  <2> QED
    BY <1>3, <2>2, <2>3 DEF NamesInv
<1>6. ResultsInv'
  <2>1. DOMAIN results = Builders /\ \A n \in Builders : results[n] = NoResult
    BY <1>3 DEF IInv, ResultsInv
  <2> QED
    BY <1>1, <2>1 DEF ResultsInv
<1>7. AnswerInv'
  BY <1>2 DEF AnswerInv
<1> QED
  BY <1>4, <1>5, <1>6, <1>7 DEF IInv

\* What a scanner may find depends on the request and on who is advisory.
LEMMA SameFindings ==
    ASSUME req' = req, config' = config
    PROVE  \A m, x : MayFind(m, x) => MayFind(m, x)'
<1>1. \A m : Kind(m)' = Kind(m)
  BY Zenon DEF Kind, clamd, exavd, jcop, Found
<1> QED
  BY <1>1 DEF MayFind

\* A scanner finishes.
LEMMA OneStep ==
    ASSUME IInv, NEW n \in ToSet(names), NEW kind \in Kind(n), One(n, kind)
    PROVE  IInv'
<1> DEFINE found == [category |-> CategoryOf[n], kind |-> kind, score |-> NoScore,
                     scored |-> ScoredOf[n], advisory |-> n \in config.advisory]
<1>1. /\ stage = "scanning" /\ results' = [results EXCEPT ![n] = found]
      /\ config' = config /\ stage' = stage /\ req' = req /\ names' = names
      /\ answer' = answer
  BY DEF One
<1>2. Started /\ Started'
  BY <1>1 DEF Started
<1>3. BootInv'
  BY <1>1, <1>2 DEF IInv, BootInv
<1>4. NamesInv'
  <2>1. Admitted => Admitted'
    BY <1>1 DEF Admitted
  <2> QED
    BY <1>1, <1>2, <2>1 DEF IInv, NamesInv
<1>5. ResultsInv'
  <2>1. \A m, x : MayFind(m, x) => MayFind(m, x)'
    BY <1>1, SameFindings
  <2>2. MayFind(n, found)
    BY DEF MayFind
  <2> HIDE DEF found
  <2>3. DOMAIN results = Builders
    BY DEF IInv, ResultsInv
  <2>4. \A m \in Builders : results'[m] = IF m = n THEN found ELSE results[m]
    BY <1>1, <2>3
  <2>5. \A m \in Builders : results'[m] = NoResult \/ MayFind(m, results'[m])
    BY <2>2, <2>4 DEF IInv, ResultsInv
  <2>6. DOMAIN results' = Builders
    BY <1>1, <2>3
  <2> QED
    BY <1>2, <2>1, <2>5, <2>6 DEF ResultsInv
<1>6. AnswerInv'
  BY <1>1 DEF AnswerInv
<1> QED
  BY <1>3, <1>4, <1>5, <1>6 DEF IInv

\* The pool has joined.
LEMMA FinishStep == IInv /\ Finish => IInv'
<1> SUFFICES ASSUME IInv, Finish PROVE IInv'
  OBVIOUS
<1>1. /\ stage = "scanning" /\ config' = config /\ req' = req /\ names' = names
      /\ results' = results /\ \A n \in ToSet(names) : results[n] # NoResult
  BY DEF Finish
<1>2. PICK report : report = Report
  OBVIOUS
<1>3. /\ stage' = "answered"
      /\ \/ all_errored(report) /\ answer' = [code |-> 503, payload |-> NoAnswer.payload]
         \/ answer' = [code |-> 200, payload |-> Payload("none", "none", verdicts(report))]
         \/ answer' = [code |-> 200, payload |-> ReportPayload(report)]
  BY <1>2, Zenon DEF Finish, Refuse, Answer
<1>4. Started /\ Started'
  BY <1>1, <1>3 DEF Started
<1>5. Admitted /\ Admitted'
  BY <1>1 DEF IInv, NamesInv, Admitted
<1>6. BootInv'
  BY <1>1, <1>3, <1>4 DEF IInv, BootInv
<1>7. NamesInv'
  BY <1>1, <1>4, <1>5 DEF IInv, NamesInv
<1>8. ResultsInv'
  <2>1. \A m, x : MayFind(m, x) => MayFind(m, x)'
    BY <1>1, SameFindings
  <2> QED
    BY <1>1, <1>4, <2>1 DEF IInv, ResultsInv
<1>9. AnswerInv'
  <2>1. Report' = report
    BY <1>1, <1>2 DEF Report
  <2>2. Reported'
    BY <1>1, <1>3, <1>5, <2>1, Zenon DEF Reported
  <2> QED
    BY <2>2 DEF AnswerInv
<1> QED
  BY <1>6, <1>7, <1>8, <1>9 DEF IInv

\* A stuttering step.
LEMMA StutterStep == IInv /\ UNCHANGED vars => IInv'
<1> SUFFICES ASSUME IInv, UNCHANGED vars PROVE IInv'
  OBVIOUS
<1>1. /\ config' = config /\ stage' = stage /\ req' = req /\ names' = names
      /\ results' = results /\ answer' = answer
  BY DEF vars
<1>2. /\ Started' <=> Started
      /\ Admitted => Admitted'
  BY <1>1 DEF Started, Admitted
<1>3. BootInv'
  BY <1>1, <1>2 DEF IInv, BootInv
<1>4. NamesInv'
  BY <1>1, <1>2 DEF IInv, NamesInv
<1>5. ResultsInv'
  <2>1. \A m, x : MayFind(m, x) => MayFind(m, x)'
    BY <1>1, SameFindings
  <2> QED
    BY <1>1, <1>2, <2>1 DEF IInv, ResultsInv
<1>6. AnswerInv'
  <2>1. Refused => Refused'
    BY <1>1 DEF Refused
  <2>2. TooLarge => TooLarge'
    BY <1>1 DEF TooLarge
  <2>3. Reported => Reported'
    <3>1. Report' = Report
      BY <1>1 DEF Report
    <3> QED
      BY <1>1, <1>2, <3>1, Zenon DEF Reported
  <2> QED
    BY <1>1, <2>1, <2>2, <2>3 DEF IInv, AnswerInv
<1> QED
  BY <1>3, <1>4, <1>5, <1>6 DEF IInv

\* The invariant holds throughout.
LEMMA Invariant == Spec => []IInv
<1>1. IInv /\ [Next]_vars => IInv'
  <2> SUFFICES ASSUME IInv, [Next]_vars PROVE IInv'
    OBVIOUS
  <2>1. CASE Boot
    BY <2>1, BootStep
  <2>2. CASE \E r \in Requests : Receive(r)
    BY <2>2, ReceiveStep
  <2>3. CASE \E n \in ToSet(names) : \E kind \in Kind(n) : One(n, kind)
    BY <2>3, OneStep
  <2>4. CASE Finish
    BY <2>4, FinishStep
  <2>5. CASE UNCHANGED vars
    BY <2>5, StutterStep
  <2> QED
    BY <2>1, <2>2, <2>3, <2>4, <2>5 DEF Next
<1> QED
  BY <1>1, InitInv, PTL DEF Spec

-----------------------------------------------------------------------------
(* The report of a scan that has been answered.                            *)

\* Its results are those of the scanners selected, all on the malware axis.
LEMMA ReportIs ==
    ASSUME IInv, Reported
    PROVE  /\ Report \in Seq({results[n] : n \in Builders})
           /\ DOMAIN Report = DOMAIN names
           /\ \A i \in DOMAIN names :
                 /\ names[i] \in ToSet(names) /\ names[i] \in Builders
                 /\ Report[i] = results[names[i]]
                 /\ Report[i].kind \in Kind(names[i])
                 /\ Report[i].category = "malware" /\ ~ Report[i].scored
                 /\ Report[i].advisory <=> names[i] \in config.advisory
<1>1. names \in Seq(Builders) /\ DOMAIN names = 1..Len(names) /\ Len(names) \in Nat
  BY LenProperties DEF IInv, NamesInv
<1>2. \A i \in DOMAIN names : names[i] \in ToSet(names) /\ names[i] \in Builders
  BY <1>1 DEF ToSet
<1>3. DOMAIN Report = DOMAIN names /\ \A i \in DOMAIN names : Report[i] = results[names[i]]
  BY DEF Report
<1>4. Report \in Seq({results[n] : n \in Builders})
  <2>1. Report \in [1..Len(names) -> {results[n] : n \in Builders}]
    BY <1>1, <1>2 DEF Report
  <2> QED
    BY <1>1, <2>1
<1>5. ASSUME NEW i \in DOMAIN names
      PROVE  /\ Report[i].kind \in Kind(names[i])
             /\ Report[i].category = "malware" /\ ~ Report[i].scored
             /\ Report[i].advisory <=> names[i] \in config.advisory
  <2>1. MayFind(names[i], Report[i])
    BY <1>2, <1>3 DEF IInv, ResultsInv, Reported
  <2>2. CategoryOf[names[i]] = "malware" /\ ~ ScoredOf[names[i]]
    BY <1>2, ShippedAssumption
  <2>3. PICK r, n, kind, adv :
          /\ r = Report[i] /\ n = names[i] /\ kind \in Kind(n)
          /\ adv = (n \in config.advisory)
          /\ r = [category |-> CategoryOf[n], kind |-> kind, score |-> NoScore,
                  scored |-> ScoredOf[n], advisory |-> adv]
    BY <2>1, Zenon DEF MayFind
  <2>4. /\ r.kind = kind /\ r.category = CategoryOf[n] /\ r.scored = ScoredOf[n]
        /\ r.advisory = adv
    BY <2>3
  <2>5. ~ r.scored
    BY <2>2, <2>3, <2>4, Zenon
  <2>6. r.advisory <=> n \in config.advisory
    BY <2>3, <2>4, Zenon
  <2> QED
    BY <2>2, <2>3, <2>4, <2>5, <2>6, Zenon
<1> QED
  BY <1>2, <1>3, <1>4, <1>5

\* So the axis is the whole report, and discrete.
LEMMA AxisIs ==
    ASSUME IInv, Reported
    PROVE  /\ by_category(Report, "malware") = DOMAIN names
           /\ CategoriesOf(Report) \subseteq {"malware"}
           /\ "malware" \in CategoriesOf(Report) => DOMAIN names # {}
           /\ "malware" \in CategoriesOf(Report) =>
                 /\ VerdictIs(Report, "malware", verdict(Report, "malware"))
                 /\ verdict(Report, "malware").score = NoScore
<1>1. PICK rs : rs = Report
  OBVIOUS
<1>2. /\ DOMAIN rs = DOMAIN names
      /\ \A i \in DOMAIN names : rs[i].category = "malware" /\ ~ rs[i].scored
      /\ rs \in Seq({results[n] : n \in Builders})
  BY <1>1, ReportIs
<1>3. by_category(rs, "malware") = DOMAIN names /\ CategoriesOf(rs) \subseteq {"malware"}
  BY <1>2 DEF by_category, CategoriesOf
<1>4. "malware" \in CategoriesOf(rs) => DOMAIN names # {}
  BY <1>2 DEF CategoriesOf
<1>5. DOMAIN names # {} => /\ VerdictIs(rs, "malware", verdict(rs, "malware"))
                           /\ verdict(rs, "malware").score = NoScore
  BY <1>2, <1>3, DiscreteAxis
<1> QED
  BY <1>1, <1>3, <1>4, <1>5

\* Whoever decides the malware axis of the report decides the selection.
LEMMA DecidersAgree ==
    ASSUME IInv, Reported, NEW i \in deciding(Report, DOMAIN names)
    PROVE  i \in DOMAIN names /\ names[i] \in deciding_scanners(config, names)
<1>1. /\ i \in DOMAIN names
      /\ Report[i].advisory => \A k \in DOMAIN names : Report[k].advisory
  BY DEF deciding
<1>2. /\ names[i] \in ToSet(names)
      /\ \A k \in DOMAIN names : Report[k].advisory <=> names[k] \in config.advisory
  BY <1>1, ReportIs
<1>3. names[i] \in config.advisory => ToSet(names) \subseteq config.advisory
  BY <1>1, <1>2 DEF ToSet
<1> QED
  BY <1>1, <1>2, <1>3 DEF deciding_scanners

\* No scan asserts that an infected file is clean: only clamd can have said so, of
\* a file past its limit, and then it does not decide.
LEMMA NeverClean ==
    ASSUME IInv, Reported, req \in Requests, req.infected, "malware" \in CategoriesOf(Report)
    PROVE  verdict(Report, "malware").kind # "clean"
<1> SUFFICES ASSUME verdict(Report, "malware").kind = "clean" PROVE FALSE
  OBVIOUS
<1>1. PICK D : D = deciding(Report, DOMAIN names)
  OBVIOUS
<1>2. D # {} /\ D \subseteq DOMAIN names
  BY <1>1, AxisIs, DecidingSubset
<1>3. PICK i \in D : TRUE
  BY <1>2
<1>4. i \in DOMAIN names /\ names[i] \in deciding_scanners(config, names)
  BY <1>1, <1>3, DecidersAgree
<1>5. /\ ~ Has(Report, D, "partial") /\ ~ Has(Report, D, "error")
      /\ ~ Has(Report, DOMAIN names, "malware")
  <2>1. VerdictIs(Report, "malware", verdict(Report, "malware"))
    BY AxisIs
  <2>2. by_category(Report, "malware") = DOMAIN names
    BY AxisIs
  <2> QED
    BY <1>1, <2>1, <2>2 DEF VerdictIs
<1>6. Report[i].kind \in Kind(names[i]) /\ names[i] \in Builders
  BY <1>4, ReportIs
<1>7. Report[i].kind \in {"clean", "malware", "partial", "error"}
  BY <1>6, KindIs
<1>8. Report[i].kind = "clean"
  BY <1>3, <1>4, <1>5, <1>7 DEF Has
<1>9. names[i] = "clamav" /\ req.size > CLAMAV_MAX_FILE_BYTES
  BY <1>6, <1>8, KindIs
<1>10. PICK cap \in {config.max_url_size, config.max_upload_size} :
          req.size <= cap /\ assert_size_cap_decidable(config, names, cap)
  BY DEF Reported, Admitted
<1>11. cap > CLAMAV_MAX_FILE_BYTES
  <2>1. req.size \in Nat /\ cap \in Nat /\ CLAMAV_MAX_FILE_BYTES \in Nat
    BY <1>10, RequestAssumption, RegistryAssumption DEF IInv, BootInv
  <2> QED
    BY <1>9, <1>10, <2>1
<1> QED
  BY <1>4, <1>9, <1>10, <1>11 DEF assert_size_cap_decidable

-----------------------------------------------------------------------------

\* No caller of either version is led to release an infected file, whatever the
\* configuration, the selection, the sizes and the failures of the engines
\* (scanner.py:477-488, 541-557).
THEOREM Infected == Spec => []InfectedNeverReleased
<1>1. IInv => InfectedNeverReleased
  <2> SUFFICES ASSUME IInv, answer.code = 200, req.infected, NEW version \in Versions
               PROVE  Caller(serialize(answer.payload, version)) # "release"
    BY DEF InfectedNeverReleased, Decisions
  <2>1. stage = "answered"
    BY DEF IInv, BootInv, NoAnswer
  <2>2. req \in Requests
    BY <2>1 DEF IInv, BootInv, Started
  <2>3. TooLarge \/ Reported
    BY <2>1 DEF IInv, AnswerInv, Refused
  <2>4. PICK p : p = answer.payload
    OBVIOUS
  <2>5. CASE TooLarge
    <3>1. p = Payload("error", "file", NoVerdicts)
      BY <2>4, <2>5 DEF TooLarge
    <3>2. WellFormed(p) /\ Decision(p) = "block"
      BY <3>1 DEF WellFormed, Decision, Payload, NoVerdicts
    <3> QED
      BY <2>4, <3>2, CallerIs
  <2>6. CASE Reported
    <3>1. PICK rs : rs = Report
      OBVIOUS
    <3>2. p = Payload("none", "none", verdicts(rs)) \/ p = ReportPayload(rs)
      BY <2>4, <2>6, <3>1 DEF Reported
    <3>3. /\ p.verdicts = verdicts(rs)
          /\ \/ p.status \in {"none", "done"} /\ p.error_kind = "none"
             \/ p.status = "error" /\ p.error_kind = "transient"
      BY <3>2 DEF ReportPayload, Payload
    <3>4. ASSUME "malware" \in DOMAIN p.verdicts
          PROVE  /\ p.verdicts["malware"].kind \in Kinds \ {"clean"}
                 /\ p.verdicts["malware"].score = NoScore
      <4>1. "malware" \in CategoriesOf(rs) /\ p.verdicts["malware"] = verdict(rs, "malware")
        BY <3>3, <3>4 DEF verdicts
      <4>2. verdict(rs, "malware").kind # "clean"
        BY <2>2, <2>6, <3>1, <4>1, NeverClean
      <4>3. /\ VerdictIs(rs, "malware", verdict(rs, "malware"))
            /\ verdict(rs, "malware").score = NoScore
        BY <2>6, <3>1, <4>1, AxisIs
      <4> QED
        BY <4>1, <4>2, <4>3, VerdictKind
    <3>5. WellFormed(p) /\ Decision(p) # "release"
      BY <3>3, <3>4 DEF WellFormed, Decision
    <3> QED
      BY <2>4, <3>5, CallerIs
  <2> QED
    BY <2>3, <2>5, <2>6
<1> QED
  BY <1>1, Invariant, PTL

\* A service that boots with a default never answers 400 to a request that leaves
\* the selection to it, whatever categories, backends and caps are configured
\* (scanner.py:481-483).
THEOREM DefaultServed == Spec => []DefaultSelectionServed
<1>1. IInv => DefaultSelectionServed
  <2> SUFFICES ASSUME IInv, config.default_categories # << >>,
                      req.categories = << >>, req.scanners = << >>, answer.code = 400
               PROVE  FALSE
    BY DEF DefaultSelectionServed
  <2>1. stage = "answered"
    BY DEF IInv, BootInv, NoAnswer
  <2>2. ~ TooLarge /\ ~ Reported
    BY DEF TooLarge, Reported
  <2> QED
    BY <2>1, <2>2 DEF IInv, AnswerInv, Refused
<1> QED
  BY <1>1, Invariant, PTL

\* A scan is called unavailable only when every engine selected failed, but for
\* advisory ones that found nothing next to a deciding one (scanner.py:241-260).
THEOREM Truthful == Spec => []UnavailableIsTruthful
<1>1. IInv => UnavailableIsTruthful
  <2> SUFFICES ASSUME IInv, answer.code = 503 \/ answer.payload.error_kind = "transient",
                      NEW n \in ToSet(names)
               PROVE  \/ results[n].kind = "error"
                      \/ /\ n \in config.advisory /\ ~ isDetection(results[n])
                         /\ ~ (ToSet(names) \subseteq config.advisory)
    BY DEF UnavailableIsTruthful
  <2>1. stage = "answered"
    BY DEF IInv, BootInv, NoAnswer, Payload
  <2>2. ~ Refused /\ ~ TooLarge
    BY DEF Refused, TooLarge, NoAnswer, Payload
  <2>3. Reported
    BY <2>1, <2>2 DEF IInv, AnswerInv
  <2>4. PICK rs : rs = Report
    OBVIOUS
  <2>5. all_errored(rs)
    BY <2>3, <2>4 DEF Reported, ReportPayload, Payload
  <2>6. PICK i \in DOMAIN names : names[i] = n
    BY DEF ToSet
  <2>7. rs[i] = results[n] /\ i \in DOMAIN rs
    BY <2>3, <2>4, <2>6, ReportIs
  <2>8. ~ isDetection(results[n])
    BY <2>5, <2>7 DEF all_errored, detected
  <2>9. CASE i \in deciding(rs, DOMAIN names)
    <3>1. by_category(rs, "malware") = DOMAIN names /\ "malware" \in CategoriesOf(rs)
      <4>1. by_category(rs, "malware") = DOMAIN names
        BY <2>3, <2>4, AxisIs
      <4>2. rs[i].category = "malware"
        BY <2>3, <2>4, <2>6, ReportIs
      <4> QED
        BY <2>7, <4>1, <4>2 DEF CategoriesOf
    <3>2. i \in DecidingOf(rs)
      BY <2>9, <3>1 DEF DecidingOf
    <3> QED
      BY <2>5, <2>7, <3>2 DEF all_errored
  <2>10. CASE i \notin deciding(rs, DOMAIN names)
    <3>1. rs[i].advisory /\ \E k \in DOMAIN names : ~ rs[k].advisory
      BY <2>6, <2>10 DEF deciding
    <3>2. \A k \in DOMAIN names : rs[k].advisory <=> names[k] \in config.advisory
      BY <2>3, <2>4, ReportIs
    <3>3. n \in config.advisory /\ ~ (ToSet(names) \subseteq config.advisory)
      BY <2>6, <3>1, <3>2 DEF ToSet
    <3> QED
      BY <2>8, <3>3
  <2> QED
    BY <2>9, <2>10
<1> QED
  BY <1>1, Invariant, PTL
=============================================================================
