---------------------------- MODULE Configuration ----------------------------
(***************************************************************************)
(* load_config (config.py): the built-in defaults are overridden field by  *)
(* field by the YAML file, by environment variables and by the command     *)
(* line, in this order, and the result is validated once.  A configuration *)
(* gives the fields of each section their values, a layer some of them.    *)
(* Values are those _coerce_env_value reads; that a value has the type its *)
(* field declares is not checked by the code and is left out.              *)
(***************************************************************************)
EXTENDS Integers, SequencesExt

CONSTANT
    Defaults  \* ScannerConfig(): sections, their fields and values

ASSUME ConfigurationAssumption ==
    \A s \in {"baseline", "research", "data", "universe"} : s \in DOMAIN Defaults

\* The layer of the variables NSE_SCANNER__<SECTION>__<FIELD>, a function of the
\* parts of their names; a name of more or fewer parts is passed over.
EnvLayer(environ) ==
    LET names == {n \in DOMAIN environ : Len(n) = 2}
    IN  [s \in {n[1] : n \in names} |->
            [f \in {n[2] : n \in {m \in names : m[1] = s}} |-> environ[<<s, f>>]]]

\* _apply_overrides and _merge_dataclass raise on a name that is not a field's.
Known(layer) ==
    \A s \in DOMAIN layer :
        s \in DOMAIN Defaults /\ DOMAIN layer[s] \subseteq DOMAIN Defaults[s]

\* _merge_dataclass, of the fields a section has.
Merged(section, overrides) ==
    [f \in DOMAIN section |-> IF f \in DOMAIN overrides THEN overrides[f] ELSE section[f]]

\* Mutation: a section that is overridden is built anew.
Rebuilt(cfg, layer) ==
    [s \in DOMAIN cfg |-> IF s \in DOMAIN layer THEN Merged(Defaults[s], layer[s]) ELSE cfg[s]]

Overridden(cfg, layer) ==
    [s \in DOMAIN cfg |-> IF s \in DOMAIN layer THEN Merged(cfg[s], layer[s]) ELSE cfg[s]]

\* validate
Valid(cfg) ==
    /\ cfg["baseline"]["max_bb_overshoot_pct"] > 0
    /\ cfg["baseline"]["bb_ddof"] \in {0, 1}
    /\ cfg["research"]["entry_price_method"] \in {"next_open", "next_close"}
    /\ cfg["data"]["price_basis"] \in {"ADJUSTED", "RAW"}
    /\ cfg["universe"]["universe_scope"] \in {"NIFTY_200", "NSE_MAINBOARD_EQ", "NSE_SME",
                                              "NSE_ETF", "NSE_REIT", "NSE_INVIT", "NSE_OTHER"}

Layers(file, environ, cli) == <<file, EnvLayer(environ), cli>>

\* The configuration, or nothing: ConfigurationError.
LoadConfig(file, environ, cli) ==
    LET layers == Layers(file, environ, cli)
        merged == Overridden(Overridden(Overridden(Defaults, layers[1]), layers[2]), layers[3])
    IN  IF (\A layer \in ToSet(layers) : Known(layer)) /\ Valid(merged) THEN {merged} ELSE {}

=============================================================================
