-------------------------------- MODULE Log --------------------------------
(***************************************************************************)
(* The logging system, common/log.c: the registry of tags, the global      *)
(* level and the per-tag overrides of the command line.  Its static state  *)
(* is one record,                                                          *)
(*    tags       tag_registry[0 .. tag_count)                              *)
(*    global     global_level once global_level_set, NULL before           *)
(*    overrides  pending_overrides[0 .. override_count)                    *)
(* and its operations are operators on that record.  A token of the        *)
(* command line is a record: key is the part before '=' ("log." stands     *)
(* for log.<tag>), tag the tag it names, value the part after '='.         *)
(***************************************************************************)
EXTENDS Naturals, Sequences, FiniteSetsExt

CONSTANTS
  NULL,
  MAX_LOG_TAGS,     \* entries of tag_registry
  MAX_OVERRIDES     \* entries of pending_overrides

LOG_INFO == 2

(* -1 in the code when the value is none of the four names. *)
parse_level(value) ==
  LET named == {i \in 1 .. 4 : <<"error", "warn", "info", "debug">>[i] = value}
  IN  IF named = {} THEN NULL ELSE Min(named) - 1

no_log == [tags |-> <<>>, global |-> NULL, overrides |-> <<>>]

Naming(overrides, name) == {i \in DOMAIN overrides : overrides[i].tag = name}

(* Seeded fault: the search goes on after a match, so the last one wins. *)
apply_overrides_last(overrides, name, level) ==
  IF Naming(overrides, name) = {} THEN level
  ELSE overrides[Max(Naming(overrides, name))].level

(* The level of a tag that had `level', after apply_overrides. *)
apply_overrides(overrides, name, level) ==
  IF Naming(overrides, name) = {} THEN level
  ELSE overrides[Min(Naming(overrides, name))].level

(* log=<level>: the global level, for the registered tags too. *)
SetGlobal(l, level) ==
  [l EXCEPT
     !.global = level,
     !.tags = [i \in DOMAIN @ |->
        [@[i] EXCEPT
           !.level = apply_overrides(l.overrides, @[i].name, level)]]]

(* log.<tag>=<level>: remembered if there is room, and applied at once.    *)
AddOverride(l, tag, level) ==
  IF Len(l.overrides) = MAX_OVERRIDES THEN l
  ELSE [l EXCEPT
          !.overrides = Append(@, [tag |-> tag, level |-> level]),
          !.tags = [i \in DOMAIN @ |->
             IF @[i].name = tag THEN [@[i] EXCEPT !.level = level] ELSE @[i]]]

log_token(l, token) ==
  LET level == parse_level(token.value)
  IN  IF level = NULL THEN l
      ELSE CASE token.key = "log"  -> SetGlobal(l, level)
             [] token.key = "log." -> AddOverride(l, token.tag, level)
             [] OTHER -> l

(* The tokens one after the other. *)
log_init(l, cmdline) ==
  IF cmdline = NULL THEN l
  ELSE LET after[n \in 0 .. Len(cmdline)] ==
             IF n = 0 THEN l ELSE log_token(after[n - 1], cmdline[n])
       IN  after[Len(cmdline)]

(* NULL, and no entry, when the registry is full. *)
log_register(l, name, default_level) ==
  IF Len(l.tags) = MAX_LOG_TAGS THEN l
  ELSE LET level == IF l.global # NULL THEN l.global ELSE default_level
       IN  [l EXCEPT !.tags = Append(@, [name  |-> name,
              level |-> apply_overrides(l.overrides, name, level)])]

(* if (!tag) tag = log_register(...): a failed registration is retried. *)
register_once(l, name) ==
  IF \E i \in DOMAIN l.tags : l.tags[i].name = name THEN l
  ELSE log_register(l, name, LOG_INFO)
=============================================================================
