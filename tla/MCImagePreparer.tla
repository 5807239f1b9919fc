-------------------------- MODULE MCImagePreparer --------------------------
(***************************************************************************)
(* Instances of ImagePreparer for TLC: two images, of which one brings its *)
(* own init system and the other gets a wrapper.                           *)
(***************************************************************************)
EXTENDS ImagePreparer

Web    == [name |-> <<<<"lib">>, <<"web">>>>, tag |-> ""]
Alpine == [name |-> <<<<"alpine">>>>, tag |-> "3"]

TwoImages == {Web, Alpine}
Trees == [i \in Image |-> IF i = Alpine THEN {"bin", "bin/sh", "openrc", "inittab"}
                          ELSE {"bin", "bin/sh", "usr/bin", "glibc"}]
=============================================================================
