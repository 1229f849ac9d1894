-------------------------- MODULE MCPackageInstall --------------------------
(* Instances of PackageInstall: a program that depends on a library.       *)
EXTENDS PackageInstall, TLC

CONSTANTS lib, app

MCDepends == (lib :> <<>>) @@ (app :> <<lib>>)
=============================================================================
