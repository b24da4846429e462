------------------------ MODULE MCCertificateManager ------------------------
(***************************************************************************)
(* Small instances of CertificateManager for TLC: two hosts that share a   *)
(* wildcard, one that must not have one, one too short to have one.        *)
(***************************************************************************)
EXTENDS CertificateManager

SomeHosts == {<<"www", "google", "com">>, <<"mail", "google", "com">>,
              <<"www", "sina", "com", "cn">>, <<"localhost">>}
FewHosts == {<<"www", "google", "com">>, <<"mail", "google", "com">>}
ShortLabels == {"www", "com", "cn"}

\* The root CA can be saved: only then is what it signed any good later.
RootSaved == {"site_save", "dh_save", "openssl"}
Openssl == {"openssl"}
=============================================================================
