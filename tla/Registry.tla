------------------------------ MODULE Registry ------------------------------
(***************************************************************************)
(* The registry of scanners (scanner.py): what a configuration must        *)
(* satisfy for the service to boot, and which scanners a request selects.  *)
(* A configuration is the record                                           *)
(*   cat_map             DEFAULT_SCANNERS: category -> sequence of names   *)
(*   default_categories  DEFAULT_CATEGORIES, a sequence                    *)
(*   advisory            ADVISORY_SCANNERS, a set of names                 *)
(*   configured          the backends that can be built                    *)
(*   max_url_size, max_upload_size                                         *)
(* Parsing the settings is left out: a map that is not JSON does not boot. *)
(***************************************************************************)
EXTENDS Integers, Sequences, SequencesExt

CONSTANTS
    Builders,                 \* _BUILDERS: the names of the backends that exist
    CategoryOf,               \* Scanner.category of each
    ScoredOf,                 \* Scanner.scored of each
    CLAMAV_MAX_FILE_BYTES     \* past it, clamd skips a file and calls it clean

ASSUME RegistryAssumption ==
    /\ "clamav" \in Builders
    /\ CLAMAV_MAX_FILE_BYTES \in Nat
    /\ DOMAIN CategoryOf = Builders
    /\ ScoredOf \in [Builders -> BOOLEAN]

\* get_scanner does not raise: the name is known and its backend configured.
get_scanner(cfg, name) == name \in Builders \cap cfg.configured

\* list(dict.fromkeys(names)): first-seen order, without duplicates.
AddName(seen, n) == IF n \in ToSet(seen) THEN seen ELSE Append(seen, n)

dedupe(names) ==
    LET seen[i \in 0..Len(names)] ==
            IF i = 0 THEN << >> ELSE AddName(seen[i - 1], names[i])
    IN  seen[Len(names)]

\* The categories a request stands for: its own, or the default ones when it
\* names neither categories nor scanners.
RequestedCategories(cfg, categories, scanners) ==
    IF categories = << >> /\ scanners = << >> THEN cfg.default_categories ELSE categories

NoSelection == << >>

\* resolve_scanners: the selection, or NoSelection for a ValueError (unknown
\* category or scanner, unconfigured backend, nothing selected).
resolve_scanners(cfg, categories, scanners) ==
    LET cats == RequestedCategories(cfg, categories, scanners)
        names == dedupe(FlattenSeq([i \in DOMAIN cats |-> cfg.cat_map[cats[i]]]) \o scanners)
    IN  IF /\ ToSet(cats) \subseteq DOMAIN cfg.cat_map
           /\ \A n \in ToSet(names) : get_scanner(cfg, n)
        THEN names ELSE NoSelection

\* deciding_scanners: the non-advisory names, or all when only advisory
\* scanners were named.
deciding_scanners(cfg, names) ==
    LET firm == {n \in ToSet(names) : n \notin cfg.advisory}
    IN  IF firm = {} THEN ToSet(names) ELSE firm

\* A plausible slip: an advisory clamav is assumed never to decide.
MutSizeCapAdvisoryIgnored(cfg, names, cap) ==
    ~ (cap > CLAMAV_MAX_FILE_BYTES
         /\ "clamav" \in ToSet(names) /\ "clamav" \notin cfg.advisory)

\* assert_size_cap_decidable does not raise.
assert_size_cap_decidable(cfg, names, cap) ==
    ~ (cap > CLAMAV_MAX_FILE_BYTES /\ "clamav" \in deciding_scanners(cfg, names))

\* A category of DEFAULT_SCANNERS is one axis of existing, configured backends.
ValidCategory(cfg, cat) ==
    LET names == cfg.cat_map[cat]
    IN  /\ names # << >>
        /\ \A n \in ToSet(names) : get_scanner(cfg, n) /\ CategoryOf[n] = cat
        /\ \A m, n \in ToSet(names) : ScoredOf[m] = ScoredOf[n]

\* A plausible slip: the boot check forgets the size caps.
MutValidateNoCaps(cfg) ==
    /\ \A cat \in DOMAIN cfg.cat_map : ValidCategory(cfg, cat)
    /\ ToSet(cfg.default_categories) \subseteq DOMAIN cfg.cat_map
    /\ cfg.advisory \subseteq Builders

\* validate_registry does not raise.
validate_registry(cfg) ==
    /\ \A cat \in DOMAIN cfg.cat_map : ValidCategory(cfg, cat)
    /\ ToSet(cfg.default_categories) \subseteq DOMAIN cfg.cat_map
    /\ cfg.advisory \subseteq Builders
    /\ \A cap \in {cfg.max_url_size, cfg.max_upload_size} : cap > CLAMAV_MAX_FILE_BYTES =>
          \A cat \in DOMAIN cfg.cat_map :
              "clamav" \notin deciding_scanners(cfg, cfg.cat_map[cat])
=============================================================================
