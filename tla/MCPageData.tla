---------------------------- MODULE MCPageData ----------------------------
(* Keys of the storage that are written together, by a behaviour.          *)
EXTENDS PageData

MCTouched ==
  {{"workspaces", "tags"}, {"local", "sync"}, {"main", "switch"}, {"switch", "bindings"}, {"jobs"}}
===========================================================================
