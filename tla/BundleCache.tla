---------------------------- MODULE BundleCache ----------------------------
(***************************************************************************)
(* The disk cache of encrypted bundles (src/src/aiproxyguard/signatures/   *)
(* cache.py), as operators on what the disk holds of one bundle: the       *)
(* bundle, its license and whether that license carries the key and is     *)
(* still valid.  Each version of a bundle has a key of its own.            *)
(*                                                                         *)
(* An operator named Faulty... is a slip a change of the code could make;  *)
(* nothing here uses it (README.md).                                       *)
(***************************************************************************)
EXTENDS Integers

CacheModes == {"full", "encrypted_only", "none"}

Cut == -1    \* the version of a file whose writing was interrupted

\* What the disk can hold of a bundle, with versions up to n; 0 is no file.
Entries(n) == [enc : Cut .. n, lic : Cut .. n, dek : BOOLEAN, valid : BOOLEAN]

Nothing == [enc |-> 0, lic |-> 0, dek |-> FALSE, valid |-> FALSE]

Licensed(e) == e.lic \notin {0, Cut}

FaultySaved(mode, e, v) == [e EXCEPT !.enc = v]

\* save_bundle_cache, all of it: the bundle, then its license, then metadata that
\* nothing depends on.
Saved(mode, e, v) ==
  IF mode = "none" THEN e
  ELSE [enc |-> v, lic |-> v, dek |-> mode = "full", valid |-> TRUE]

\* The same, interrupted by an error or a crash: before, within or after the
\* writing of the bundle, or within that of the license.
Torn(mode, e, v) ==
  IF mode = "none" THEN {e}
  ELSE {e, [e EXCEPT !.enc = Cut], [e EXCEPT !.enc = v], [e EXCEPT !.enc = v, !.lic = Cut]}

\* list_cached_bundles
Listed(e) == e.enc # 0

\* load_bundle_cache
Loads(e) == Licensed(e) /\ e.valid /\ Listed(e)

\* decrypt_content with the key of the license.
Decrypts(e) == e.enc = e.lic

\* clear_expired_cache
Swept(e) == IF Listed(e) /\ Licensed(e) /\ ~e.valid THEN Nothing ELSE e

\* What load_bundle_cache returns can be used without the control plane.
Usable(e) == Loads(e) /\ e.dek /\ Decrypts(e)
=============================================================================
