------------------------- MODULE GeneratorSettings -------------------------
(***************************************************************************)
(* How the data generator resolves a setting: generators/common/config.py  *)
(* and generators/infrastructure/settings/company_profile.py.  A layer is  *)
(* what one source says of one boolean key: nothing ("absent"), "on" or    *)
(* "off".  A JSON file may also exist and not have the key ("no key"),     *)
(* which is not the same as no file: the first file with anything in it    *)
(* is the only one that is looked at.                                      *)
(***************************************************************************)

Layer == {"absent", "on", "off"}
File  == Layer \cup {"no key"}

\* Everything that may set a key: the environment variable, the two files, the
\* overlay GENERATOR_SETTINGS_JSON and the row of the meta store.  A source
\* that cannot be read or parsed is logged and counts as absent.
Sources == [env : {"unset", "blank", "on", "other"}, explicit : File, directory : File,
            overlay : Layer, meta : Layer]

\* dict.update for one key.
Updated(base, over) == IF over = "absent" THEN base ELSE over

\* load_json_profile, its files: GENERATOR_SETTINGS_FILE, else the directory.
FirstFile(s) == IF s.explicit # "absent" THEN s.explicit ELSE s.directory
FileLayer(s) == IF FirstFile(s) = "no key" THEN "absent" ELSE FirstFile(s)

Overlaid(s) == Updated(FileLayer(s), s.overlay)

\* load_merged_profile over _baseline.
Baseline == "on"
Merged(s) == Updated(Updated(Baseline, Overlaid(s)), s.meta)

\* _pick_bool: a variable that is set to anything else than a yes is a no.
PickBool(s) == IF s.env \in {"unset", "blank"} THEN Merged(s) = "on" ELSE s.env = "on"
-----------------------------------------------------------------------------
\* The precedence that docs/Generators.md describes, from the strongest source
\* to the weakest.
Documented(s) ==
    IF s.env \in {"on", "other"} THEN s.env = "on"
    ELSE IF s.meta # "absent" THEN s.meta = "on"
    ELSE IF s.overlay # "absent" THEN s.overlay = "on"
    ELSE IF s.explicit # "absent" THEN s.explicit # "off"
    ELSE s.directory # "off"
=============================================================================
