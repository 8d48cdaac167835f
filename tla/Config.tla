------------------------------- MODULE Config -------------------------------
(***************************************************************************)
(* The configuration (src/src/config/config.c): one copy in RAM with a     *)
(* dirty flag, and the copy in flash (NVS). A setter and a save are        *)
(* several steps, and no lock spans them.                                  *)
(*                                                                         *)
(* The steps here say what happens to the configuration; the module Shell  *)
(* says which console makes them, and in which order.                      *)
(***************************************************************************)
EXTENDS Naturals, Sequences, SequencesExt

CONSTANTS
    KeyOrder,  \* the keys in the order in which config_save writes them
    Words,     \* what values, and names of files, consist of
    Default,   \* the compiled-in value of each key
    Absent     \* what NVS gives for a key it does not hold

Keys == ToSet(KeyOrder)

(* A value is a sequence of words, as a name is one of components. *)
Names == Seq(Words)

ASSUME ConfigAssumption ==
    /\ KeyOrder \in Seq(Keys) /\ IsInjective(KeyOrder)
    /\ Default \in [Keys -> Names] /\ Absent \notin Names

VARIABLES
    s_cfg,   \* the live copy
    s_dirty, \* "unsaved changes", shown in the prompt
    nvs      \* what flash holds for each key

configVars == <<s_cfg, s_dirty, nvs>>

Empty == [k \in Keys |-> Absent]

(* The stored values over the defaults. *)
load_from_nvs(stored) == [k \in Keys |-> IF stored[k] = Absent THEN Default[k] ELSE stored[k]]

(* config_init: NVS that is full or of a new format is erased. *)
config_init ==
    /\ nvs' \in {nvs, Empty}
    /\ s_cfg' = load_from_nvs(nvs')
    /\ s_dirty' = FALSE

(* A setter: the value, ... *)
Assign(k, v) ==
    /\ s_cfg[k] # v
    /\ s_cfg' = [s_cfg EXCEPT ![k] = v]
    /\ UNCHANGED <<s_dirty, nvs>>

(* ... and then the flag. A setter that changes nothing leaves it alone. *)
MarkDirty == s_dirty' = TRUE /\ UNCHANGED <<s_cfg, nvs>>

(* config_save: one nvs_set per key, and the flag once all have worked. *)
SaveKey(k) == nvs' = [nvs EXCEPT ![k] = s_cfg[k]] /\ UNCHANGED <<s_cfg, s_dirty>>
MarkClean == s_dirty' = FALSE /\ UNCHANGED <<s_cfg, nvs>>

(* config_wipe: the namespace is erased, then the live copy is reset. *)
EraseAll == nvs' = Empty /\ UNCHANGED <<s_cfg, s_dirty>>
set_defaults == s_cfg' = Default /\ UNCHANGED <<s_dirty, nvs>>
=============================================================================
