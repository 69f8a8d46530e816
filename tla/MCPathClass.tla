---------------------------- MODULE MCPathClass ----------------------------
(***************************************************************************)
(* A volume for TLC: the directory of the keys and an alias of it, a       *)
(* listed directory and one whose name starts with its name, an unlisted   *)
(* one, a listed file, and a path too long to normalise.                   *)
(***************************************************************************)
EXTENDS PathClass, TLC

MCNames == {".fat_crypt", ".FAT_CRYPT", "grub", "grub2", "doc", "kernel", "x", "long"}

MCFold == [n \in MCNames |-> IF n = ".FAT_CRYPT" THEN ".fat_crypt" ELSE n]

MCLonger == {<<n, n>> : n \in MCNames} \cup {<<"grub2", "grub">>}

MCPlainFiles == {<<"kernel">>}

MCPlainDirs == {<<"grub">>}

MCPaths ==
  {<<".fat_crypt", "x">>, <<".FAT_CRYPT", "x">>, <<"grub">>, <<"grub", "x">>,
   <<"grub2", "x">>, <<"doc">>, <<"doc", "x">>, <<"doc", "long">>, <<"kernel">>}

MCTooLong == {<<"doc", "long">>}

MCInitDirs == {<<".fat_crypt">>, <<"grub">>, <<"grub2">>, <<"doc">>}

MCInitFiles ==
  (<<".fat_crypt", "x">> :> "config") @@ (<<"kernel">> :> "note") @@ (<<"doc", "x">> :> "note")
=============================================================================
