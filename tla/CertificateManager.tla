------------------------- MODULE CertificateManager -------------------------
(***************************************************************************)
(* certificate_manager.hpp / certificate_manager.cpp over the lifetime of  *)
(* several processes: the root CA and the certificates forged for hosts    *)
(* are kept in memory, and in files that outlive the process.  A process   *)
(* may end between any two writes of a file.                               *)
(***************************************************************************)
EXTENDS Naturals, Sequences

CONSTANTS Hosts,       \* hosts clients ask for, as sequences of labels
          Short,       \* labels of at most three characters
          Failing,     \* calls that may fail
          MaxKeys,     \* bound: keys generated
          MaxCrashes   \* bound: times the process ends

ASSUME CertificateAssumption ==
  /\ Hosts \subseteq Seq(STRING)
  /\ \A h \in Hosts : h # << >> /\ h[1] \notin {"*", "^", "xProxyRootCA"}
  /\ Failing \subseteq {"root_save", "site_save", "dh_save", "openssl"}
  /\ MaxKeys \in Nat /\ MaxCrashes \in Nat

VARIABLES phase,         \* where the process is
          file,          \* contents of the files under cert/
          dh_file,       \* cert/dh.pem is complete
          root,          \* root_
          dh,            \* dh_ is set
          certificates,  \* certificates_
          keys,          \* keys generated so far; a key is its number
          request,       \* the host get_certificate is at work for
          served,        \* the host and the certificate it last returned
          crashes        \* times a process has ended

vars == <<phase, file, dh_file, root, dh, certificates, keys, request, served, crashes>>

\* Mutant of parse_common_name: two labels give way to the wildcard.
parse_common_name_wide(host) ==
  IF Len(host) < 3 \/ host[Len(host) - 1] \in Short THEN host ELSE <<"*">> \o Tail(Tail(host))

\* certificate_manager::parse_common_name: a wildcard for the first label,
\* unless that would cover something like "something.com.cn".
parse_common_name(host) ==
  IF Len(host) < 3 \/ host[Len(host) - 1] \in Short THEN host ELSE <<"*">> \o Tail(host)

\* certificate_manager::get_certificate_filename
get_certificate_filename(cn) == IF cn[1] = "*" THEN <<"^">> \o Tail(cn) ELSE cn

CommonNames == {parse_common_name(h) : h \in Hosts}
RootFile == <<"xProxyRootCA">>
SiteFiles == {get_certificate_filename(n) : n \in CommonNames}
Files == SiteFiles \cup {RootFile}

\* An X.509 certificate (its subject, public key and signer) with a private
\* key; a part that is not there is 0.  A file that does not exist and one
\* that holds nothing readable are both NoCertificate.
NoCertificate == [cn |-> << >>, pub |-> 0, issuer |-> 0, key |-> 0]

\* Mutant of load_certificate: a file without its key will do.
load_certificate_lax(f) == file[f].pub # 0

\* What load_certificate returns.  The certificate it leaves behind is
\* file[f], even if it fails for want of the key.
load_certificate(f) == file[f].pub # 0 /\ file[f].key # 0

Init ==
  /\ phase = "down"
  /\ file = [f \in Files |-> NoCertificate]
  /\ dh_file = FALSE
  /\ root = NoCertificate
  /\ dh = FALSE
  /\ certificates = [n \in CommonNames |-> NoCertificate]
  /\ keys = 0
  /\ request = << >>
  /\ served = [host |-> << >>, cert |-> NoCertificate]
  /\ crashes = 0

-----------------------------------------------------------------------------
\* Mutant of generate: the subject is a wildcard of the name.
generate_wild(cn, issuer) == [cn |-> <<"*">> \o cn, pub |-> keys + 1, issuer |-> issuer, key |-> keys + 1]

\* generate_key and the certificate made with it.
generate(cn, issuer) == [cn |-> cn, pub |-> keys + 1, issuer |-> issuer, key |-> keys + 1]
generate_key == keys < MaxKeys /\ keys' = keys + 1

\* save_certificate(f) starts: fopen(f, "wb") empties the file, or fails.
OpenFile(f, saving, next, failure) ==
  \/ file' = [file EXCEPT ![f] = NoCertificate] /\ phase' = saving
  \/ failure \in Failing /\ phase' = next /\ UNCHANGED file

\* Mutants of init_root: the new root is not saved; the root is made anew.
init_root_unsaved ==
  /\ phase = "down"
  /\ phase' = "init_dh"
  /\ IF load_certificate(RootFile)
     THEN root' = file[RootFile] /\ UNCHANGED keys
     ELSE generate_key /\ root' = generate(RootFile, keys + 1)
  /\ UNCHANGED <<file, dh_file, dh, certificates, request, served, crashes>>
init_root_anew ==
  /\ phase = "down"
  /\ generate_key
  /\ root' = generate(RootFile, keys + 1)
  /\ OpenFile(RootFile, "save_root", "init_dh", "root_save")
  /\ UNCHANGED <<dh_file, dh, certificates, request, served, crashes>>

\* A process starts, and init() loads the root CA, or generates and saves one.
\* If it can do neither init() is false and main() returns, as if the process
\* had not started.
init_root ==
  /\ phase = "down"
  /\ \/ /\ load_certificate(RootFile)
        /\ root' = file[RootFile]
        /\ phase' = "init_dh"
        /\ UNCHANGED <<file, keys>>
     \/ /\ ~load_certificate(RootFile)
        /\ generate_key
        /\ root' = generate(RootFile, keys + 1)
        /\ OpenFile(RootFile, "save_root", "init_dh", "root_save")
  /\ UNCHANGED <<dh_file, dh, certificates, request, served, crashes>>

\* The Diffie-Hellman parameters, in the same way.
init_dh ==
  /\ phase = "init_dh"
  /\ dh' = TRUE
  /\ phase' = IF dh_file THEN "ready" ELSE "save_dh"
  /\ UNCHANGED <<file, dh_file, root, certificates, keys, request, served, crashes>>

save_dh_parameters ==
  /\ phase = "save_dh"
  /\ phase' = "ready"
  /\ dh_file' \in {TRUE, "dh_save" \notin Failing}
  /\ UNCHANGED <<file, root, dh, certificates, keys, request, served, crashes>>

\* The two PEM_write calls of save_certificate, for the root and for a site.
\* A failure of the first leaves the file empty, of the second without a key;
\* the callers go on all the same.
Saves(f, cert, failure, next) ==
  \/ /\ file[f].pub = 0
     /\ file' = [file EXCEPT ![f] = [cert EXCEPT !.key = 0]]
     /\ UNCHANGED <<phase, served>>
  \/ /\ file[f].pub # 0
     /\ file' = [file EXCEPT ![f] = cert]
     /\ next
  \/ /\ failure \in Failing
     /\ next
     /\ UNCHANGED file

save_root_ca ==
  /\ phase = "save_root"
  /\ Saves(RootFile, root, "root_save", phase' = "init_dh" /\ UNCHANGED served)
  /\ UNCHANGED <<dh_file, root, dh, certificates, keys, request, crashes>>

\* get_certificate returns cert to the caller that asked for host.
Returns(host, cert) == phase' = "ready" /\ served' = [host |-> host, cert |-> cert]

save_site ==
  LET cn == parse_common_name(request) IN
  /\ phase = "save_site"
  /\ Saves(get_certificate_filename(cn), certificates[cn], "site_save",
           Returns(request, certificates[cn]))
  /\ UNCHANGED <<dh_file, root, dh, certificates, keys, request, crashes>>

\* certificate_manager::get_certificate(host): from the cache, from the file,
\* or generated, cached and then saved.  If it cannot be generated, what load
\* left behind is returned, and is not cached.
get_certificate(host) ==
  LET cn == parse_common_name(host)
      f == get_certificate_filename(cn)
      cached == certificates[cn].pub # 0
      fresh == generate(cn, root.key)
  IN  /\ phase = "ready"
      /\ request' = host
      /\ \/ /\ cached
            /\ Returns(host, certificates[cn])
            /\ UNCHANGED <<certificates, file, keys>>
         \/ /\ ~cached /\ load_certificate(f)
            /\ certificates' = [certificates EXCEPT ![cn] = file[f]]
            /\ Returns(host, file[f])
            /\ UNCHANGED <<file, keys>>
         \/ /\ ~cached /\ ~load_certificate(f)
            /\ generate_key
            /\ certificates' = [certificates EXCEPT ![cn] = fresh]
            /\ \/ /\ file' = [file EXCEPT ![f] = NoCertificate]
                  /\ phase' = "save_site"
                  /\ UNCHANGED served
               \/ "site_save" \in Failing /\ Returns(host, fresh) /\ UNCHANGED file
         \/ /\ ~cached /\ ~load_certificate(f)
            /\ "openssl" \in Failing
            /\ Returns(host, file[f])
            /\ UNCHANGED <<certificates, file, keys>>
      /\ UNCHANGED <<dh_file, root, dh, crashes>>

\* The process ends, wherever it is; only the files remain.
Crash ==
  /\ phase # "down" /\ crashes < MaxCrashes
  /\ crashes' = crashes + 1
  /\ phase' = "down"
  /\ root' = NoCertificate
  /\ dh' = FALSE
  /\ certificates' = [n \in CommonNames |-> NoCertificate]
  /\ request' = << >>
  /\ served' = [host |-> << >>, cert |-> NoCertificate]
  /\ UNCHANGED <<file, dh_file, keys>>

Next ==
  \/ init_root \/ init_dh \/ save_root_ca \/ save_dh_parameters \/ save_site
  \/ \E host \in Hosts : get_certificate(host)
  \/ Crash
Spec == Init /\ [][Next]_vars

-----------------------------------------------------------------------------
(* Properties.                                                              *)
Phases == {"down", "save_root", "init_dh", "save_dh", "ready", "save_site"}
Certificates == [cn : CommonNames \cup {RootFile, << >>}, pub : Nat, issuer : Nat, key : Nat]

\* Every variable has its type.
TypeOK ==
  /\ phase \in Phases
  /\ file \in [Files -> Certificates]
  /\ dh_file \in BOOLEAN
  /\ root \in Certificates
  /\ dh \in BOOLEAN
  /\ certificates \in [CommonNames -> Certificates]
  /\ keys \in Nat
  /\ request \in Hosts \cup {<< >>}
  /\ served \in [host : Hosts \cup {<< >>}, cert : Certificates]
  /\ crashes \in Nat

\* The process has its root CA.
Initialized == phase \in {"init_dh", "save_dh", "ready", "save_site"}

\* Whatever was left in the files, the root in use and every certificate in
\* the cache come with the private key that belongs to them.
KeysMatch ==
  /\ Initialized => root.pub # 0 /\ root.pub = root.key
  /\ \A n \in CommonNames : certificates[n].pub = certificates[n].key

\* A certificate in the cache was signed by the root CA in use, although it
\* may come from a file that an earlier process has written.
SignedByRoot ==
  \A n \in CommonNames : certificates[n].pub # 0 => certificates[n].issuer = root.pub

\* A wildcard stands for exactly one label, and never for all there is under
\* a suffix such as com.cn.
Matches(cn, host) ==
  \/ cn = host
  \/ /\ cn[1] = "*" /\ Tail(cn) = Tail(host)
     /\ Len(cn) > 2 /\ cn[Len(cn) - 1] \notin Short

\* The certificate a client is shown is one for the host it asked for, also
\* when it was cached or saved for another host.
CertificateFits ==
  served.cert.pub # 0 => Matches(served.cert.cn, served.host)

\* A file that is complete is never written again: the root CA a browser has
\* been told to trust stays the root CA, across any number of restarts.
FilesKept ==
  [][\A f \in Files : file[f].key # 0 => file'[f] = file[f]]_vars
=============================================================================
