------------------------------- MODULE Patch -------------------------------
(***************************************************************************)
(* What a PATCH writes.  The handlers load a row, assign the fields of the *)
(* request to it and flush; SQLAlchemy puts into the UPDATE only those     *)
(* fields whose new value differs from the loaded one, and issues none if  *)
(* there is no such field.  The row may have changed since it was loaded.  *)
(***************************************************************************)
Changed(loaded, data) == {f \in DOMAIN data : data[f] # loaded[f]}

WholeRow(row, loaded, data) ==    \* mutant: the UPDATE names every column
    [f \in DOMAIN row |-> IF f \in DOMAIN data THEN data[f] ELSE loaded[f]]

Patched(row, loaded, data) ==
    [f \in DOMAIN row |-> IF f \in Changed(loaded, data) THEN data[f] ELSE row[f]]
=============================================================================
