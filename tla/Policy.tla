------------------------------- MODULE Policy -------------------------------
(***************************************************************************)
(* How a configuration decides where a session goes                        *)
(* (internal/config/config.go, lists.go): the defaults LoadConfig fills    *)
(* in, the checks of Validate, and PolicyFor.                              *)
(*                                                                         *)
(* A host is the sequence of its labels; an empty last label is a final    *)
(* dot.  An entry of a domain list is such a sequence and whether it       *)
(* started with a dot.  Only hosts are brought to lower case, entries are  *)
(* not.  Durations, ports and addresses are left out.                      *)
(***************************************************************************)
EXTENDS Naturals, Sequences, SequencesExt

CONSTANT LowerCase    \* a function: the lower case of every label there is

(* TrimSpace, ToLower and TrimSuffix of matches, recordsMatch, normalizeHost. *)
Normalized(host) ==
    LET lower == [i \in DOMAIN host |-> LowerCase[host[i]]]
    IN  IF lower # <<>> /\ Last(lower) = "" THEN Front(lower) ELSE lower

(* TemplateToRegex: an exact name, or ^(?:[^.]+\.)*name$ for a leading dot. *)
EntryMatches(entry, host) ==
    \/ host = entry.labels
    \/ /\ entry.suffix
       /\ IsSuffix(entry.labels, host)
       /\ \A i \in 1..(Len(host) - Len(entry.labels)) : host[i] # ""
RecordsMatch(list, host) == \E entry \in list : EntryMatches(entry, Normalized(host))

(* CanLearn; filters.allow is a list, or the empty set and filters.open TRUE *)
(* when no allow list is configured.                                       *)
CanLearn(filters, host) ==
    /\ ~RecordsMatch(filters.deny, host)
    /\ filters.open \/ RecordsMatch(filters.allow, host)

-----------------------------------------------------------------------------
Or(value, default) == IF value = "" THEN default ELSE value

(* LoadConfig and normalizeStrategy. *)
NormalizedStrategy(config, s) ==
    [s EXCEPT !.egress = Or(@, IF LowerCase[s.action] = "socks5" THEN "socks5" ELSE "direct"),
              !.dpi = Or(@, IF LowerCase[s.action] \in {"fake-sni", "fragment"}
                            THEN LowerCase[s.action] ELSE "none"),
              !.upstream = Or(@, s.param),
              !.fallback = Or(@, config.detection)]
Loaded(config) ==
    [config EXCEPT !.default.egress = Or(@, "direct"),
                   !.default.dpi = Or(@, "none"),
                   !.strategies = [i \in DOMAIN @ |-> NormalizedStrategy(config, @[i])]]

(* validatePolicy, and what Validate has to say of policies. *)
ValidPolicy(config, policy) ==
    /\ policy.egress \in {"direct", "socks5"}
    /\ policy.dpi \in {"none", "fragment", "fake-sni"}
    /\ policy.egress = "socks5" => policy.upstream \in config.upstreams
    /\ policy.fallback \notin {"", "none"} => policy.fallback \in config.upstreams
Valid(config) ==
    /\ \A i \in DOMAIN config.strategies : ValidPolicy(config, config.strategies[i])
    /\ ValidPolicy(config, config.default)

-----------------------------------------------------------------------------
Resolved(name, p) ==
    [name |-> name, egress |-> p.egress, dpi |-> p.dpi, upstream |-> p.upstream,
     fallback |-> p.fallback]

(* The first strategy one of whose entries matches, or the default. *)
Configured(config, host) ==
    LET matching == {i \in DOMAIN config.strategies :
                       RecordsMatch(config.strategies[i].list, host)}
    IN  IF matching = {}
        THEN Resolved("default", [config.default EXCEPT !.fallback = Or(@, config.detection)])
        ELSE LET first == CHOOSE i \in matching : \A j \in matching : i <= j
             IN  Resolved(config.strategies[first].name, config.strategies[first])

(* The form a regression could give PolicyFor; nothing uses it. *)
PolicyForLearnedFirst(config, host, learned) ==
    LET policy == Configured(config, host) IN
    IF learned \in config.upstreams /\ policy.fallback # "none"
    THEN [policy EXCEPT !.name = "learned-domain", !.egress = "socks5", !.dpi = "none",
                        !.upstream = learned]
    ELSE policy

(* PolicyFor; "" is no learned upstream. *)
PolicyFor(config, host, learned) ==
    LET policy == Configured(config, host) IN
    IF learned \in config.upstreams /\ policy.egress # "socks5" /\ policy.fallback # "none"
    THEN [policy EXCEPT !.name = "learned-domain", !.egress = "socks5", !.dpi = "none",
                        !.upstream = learned]
    ELSE policy

HasFallback(policy) == policy.fallback \notin {"", "none"}
=============================================================================
