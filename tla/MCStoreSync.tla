---------------------------- MODULE MCStoreSync ----------------------------
EXTENDS StoreSync

(* One session with a thread: what is deleted with it, and what crosses    *)
(* the end of a page.                                                      *)
MCParent == <<1>>
============================================================================
