------------------------- MODULE CertificateProofs -------------------------
(***************************************************************************)
(* Theorems about CertificateManager for every set of hosts, any number of *)
(* processes and keys, and every failure.  Only what is said of who has    *)
(* signed a certificate supposes that the root CA can be saved.            *)
(***************************************************************************)
EXTENDS CertificateManager, TLAPS

Keyed(c) == c.key # 0 => c.pub = c.key
Whole(c) == c.pub # 0 /\ c.pub = c.key

RootSaved == "root_save" \notin Failing

\* What holds of the files, whatever the process is doing: keys belong to
\* their certificates, and what there is was signed by the root that is there.
FilesInv ==
  /\ \A f \in Files : Keyed(file[f])
  /\ RootSaved =>
       \A f \in SiteFiles : file[f].pub # 0 => /\ file[f].issuer = file[RootFile].pub
                                              /\ Whole(file[RootFile])

\* The root in use has its key, and is the saved one; its file is not complete
\* while it is being saved.
RootInv ==
  /\ Initialized => Whole(root) /\ (RootSaved => root = file[RootFile])
  /\ phase = "save_root" => Whole(root) /\ file[RootFile].key = 0

\* The cache is used only once the process is ready, and holds whole
\* certificates signed by the root.
CacheInv ==
  /\ \A n \in CommonNames : certificates[n].pub # 0 =>
       phase \in {"ready", "save_site"} /\ (RootSaved => certificates[n].issuer = root.pub)
  /\ \A n \in CommonNames : certificates[n].pub = certificates[n].key

\* While a certificate is being saved its file is not complete.
SaveInv ==
  phase = "save_site" =>
    LET cn == parse_common_name(request) IN
    /\ request \in Hosts
    /\ certificates[cn].pub # 0
    /\ file[get_certificate_filename(cn)].key = 0

CInv == TypeOK /\ FilesInv /\ RootInv /\ CacheInv /\ SaveInv

\* No host shares its file with the root CA.
LEMMA RootFileApart == RootFile \notin SiteFiles
<1> SUFFICES ASSUME NEW h \in Hosts
             PROVE  get_certificate_filename(parse_common_name(h)) # RootFile
  BY DEF SiteFiles, CommonNames
<1>1. h # << >> /\ h[1] \notin {"*", "^", "xProxyRootCA"}
  BY CertificateAssumption
<1> QED
  BY <1>1 DEF get_certificate_filename, parse_common_name, RootFile

\* The names of a host, without looking at what they are.
LEMMA Names ==
  ASSUME NEW h \in Hosts
  PROVE  /\ parse_common_name(h) \in CommonNames
         /\ get_certificate_filename(parse_common_name(h)) \in SiteFiles
BY DEF CommonNames, SiteFiles

LEMMA FileNames == SiteFiles \subseteq Files /\ RootFile \in Files /\ Files = SiteFiles \cup {RootFile}
BY DEF Files

LEMMA NoCertificateType ==
  /\ NoCertificate \in Certificates
  /\ NoCertificate.pub = 0 /\ NoCertificate.key = 0
BY DEF NoCertificate, Certificates

LEMMA GenerateType ==
  ASSUME NEW cn \in CommonNames \cup {RootFile}, NEW issuer \in Nat, keys \in Nat
  PROVE  /\ generate(cn, issuer) \in Certificates
         /\ Whole(generate(cn, issuer))
         /\ generate(cn, issuer).issuer = issuer
BY DEF generate, Certificates, Whole

\* A file that can be loaded holds a certificate with its key.
LEMMA LoadedWhole ==
  ASSUME FilesInv, NEW f \in Files
  PROVE  /\ load_certificate(f) => Whole(file[f])
         /\ ~load_certificate(f) => file[f].key = 0 \/ file[f].pub = 0
BY DEF FilesInv, load_certificate, Keyed, Whole

LEMMA InitCInv == Init => CInv
<1> SUFFICES ASSUME Init PROVE CInv
  OBVIOUS
<1>1. TypeOK
  BY NoCertificateType DEF Init, TypeOK, Phases
<1>2. FilesInv
  BY NoCertificateType, FileNames DEF Init, FilesInv, Keyed
<1>3. RootInv /\ SaveInv
  BY DEF Init, RootInv, SaveInv, Initialized
<1>4. CacheInv
  BY NoCertificateType DEF Init, CacheInv
<1> QED
  BY <1>1, <1>2, <1>3, <1>4 DEF CInv

LEMMA InitRootCInv ==
  ASSUME CInv, init_root
  PROVE  CInv'
<1>0. TypeOK /\ FilesInv /\ RootInv /\ CacheInv /\ SaveInv /\ phase = "down"
  BY DEF CInv, init_root
<1>c. \A n \in CommonNames : certificates[n].pub = 0 /\ certificates[n].key = 0
  BY <1>0 DEF CacheInv, TypeOK
<1>u. UNCHANGED <<dh_file, dh, certificates, request, served, crashes>>
  BY DEF init_root
<1>1. CASE /\ load_certificate(RootFile)
           /\ root' = file[RootFile]
           /\ phase' = "init_dh"
           /\ UNCHANGED <<file, keys>>
  <2>1. Whole(file[RootFile]) /\ file[RootFile] \in Certificates
    BY <1>0, <1>1, LoadedWhole, FileNames DEF TypeOK
  <2>2. TypeOK'
    BY <1>0, <1>1, <1>u, <2>1 DEF TypeOK, Phases
  <2>3. FilesInv' /\ RootInv' /\ SaveInv'
    BY <1>0, <1>1, <2>1 DEF FilesInv, RootInv, SaveInv, Initialized, Keyed, Whole
  <2>4. CacheInv'
    BY <1>c, <1>u DEF CacheInv
  <2> QED
    BY <2>2, <2>3, <2>4 DEF CInv
<1>2. CASE /\ ~load_certificate(RootFile)
           /\ generate_key
           /\ root' = generate(RootFile, keys + 1)
           /\ OpenFile(RootFile, "save_root", "init_dh", "root_save")
  <2>1. \/ file' = [file EXCEPT ![RootFile] = NoCertificate] /\ phase' = "save_root"
        \/ ~RootSaved /\ UNCHANGED file /\ phase' = "init_dh"
    BY <1>2 DEF OpenFile, RootSaved
  <2>2. keys \in Nat /\ keys' = keys + 1 /\ root' \in Certificates /\ Whole(root')
    <3>1. keys \in Nat /\ keys + 1 \in Nat /\ RootFile \in CommonNames \cup {RootFile}
      BY <1>0 DEF TypeOK
    <3>2. keys' = keys + 1
      BY <1>2 DEF generate_key
    <3>3. /\ generate(RootFile, keys + 1) \in Certificates
          /\ Whole(generate(RootFile, keys + 1))
      BY <3>1, GenerateType
    <3> QED
      BY <1>2, <3>1, <3>2, <3>3
  <2>3. file \in [Files -> Certificates]
    BY <1>0 DEF TypeOK
  <2>4. TypeOK'
    BY <1>0, <1>u, <2>1, <2>2, <2>3, FileNames, NoCertificateType DEF TypeOK, Phases
  <2>5. FilesInv' /\ RootInv' /\ SaveInv'
    <3>1. CASE file' = [file EXCEPT ![RootFile] = NoCertificate] /\ phase' = "save_root"
      <4>1. RootSaved => \A f \in SiteFiles : file[f].pub = 0
        BY <1>0, <1>2, LoadedWhole, FileNames DEF FilesInv, Whole
      <4>2. /\ file'[RootFile] = NoCertificate
            /\ \A f \in SiteFiles : file'[f] = file[f]
        BY <2>3, <3>1, FileNames, RootFileApart
      <4>3. FilesInv'
        BY <1>0, <4>1, <4>2, FileNames, NoCertificateType DEF FilesInv, Keyed
      <4> QED
        BY <2>2, <3>1, <4>2, <4>3, NoCertificateType DEF RootInv, SaveInv, Initialized
    <3>2. CASE ~RootSaved /\ UNCHANGED file /\ phase' = "init_dh"
      BY <1>0, <2>2, <3>2 DEF FilesInv, RootInv, SaveInv, Initialized, Keyed
    <3> QED
      BY <2>1, <3>1, <3>2
  <2>6. CacheInv'
    BY <1>c, <1>u DEF CacheInv
  <2> QED
    BY <2>4, <2>5, <2>6 DEF CInv
<1> QED
  BY <1>1, <1>2 DEF init_root

LEMMA DhCInv ==
  ASSUME CInv, init_dh \/ save_dh_parameters
  PROVE  CInv'
<1>0. TypeOK /\ FilesInv /\ RootInv /\ CacheInv
  BY DEF CInv
<1>1. /\ UNCHANGED <<file, root, certificates, keys, request, served, crashes>>
      /\ phase \in {"init_dh", "save_dh"} /\ phase' \in {"save_dh", "ready"}
      /\ dh' \in BOOLEAN /\ dh_file' \in BOOLEAN
  BY <1>0 DEF init_dh, save_dh_parameters, TypeOK
<1>2. TypeOK'
  BY <1>0, <1>1 DEF TypeOK, Phases
<1>3. FilesInv'
  BY <1>0, <1>1 DEF FilesInv, Keyed, Whole
<1>4. RootInv'
  BY <1>0, <1>1 DEF RootInv, Initialized, Whole
<1>5. CacheInv'
  BY <1>0, <1>1 DEF CacheInv
<1>6. SaveInv'
  BY <1>1 DEF SaveInv
<1> QED
  BY <1>2, <1>3, <1>4, <1>5, <1>6 DEF CInv

LEMMA SaveRootCInv ==
  ASSUME CInv, save_root_ca
  PROVE  CInv'
<1>0. TypeOK /\ FilesInv /\ RootInv /\ CacheInv /\ phase = "save_root"
  BY DEF CInv, save_root_ca
<1>1. UNCHANGED <<dh_file, root, dh, certificates, keys, request, crashes, served>>
  BY DEF save_root_ca, Saves
<1>2. Whole(root) /\ root \in Certificates /\ file[RootFile].key = 0
  BY <1>0 DEF RootInv, TypeOK
<1>3. RootSaved => \A f \in SiteFiles : file[f].pub = 0
  BY <1>0, <1>2 DEF FilesInv, Whole
<1>4. file \in [Files -> Certificates]
  BY <1>0 DEF TypeOK
<1>c. \A n \in CommonNames : certificates[n].pub = 0 /\ certificates[n].key = 0
  BY <1>0 DEF CacheInv, TypeOK
<1>5. PICK c \in Certificates :
        /\ file' = [file EXCEPT ![RootFile] = c] /\ Keyed(c)
        /\ \/ phase' = "save_root" /\ c.key = 0
           \/ phase' = "init_dh" /\ (RootSaved => c = root)
  <2>1. CASE file' = [file EXCEPT ![RootFile] = [root EXCEPT !.key = 0]] /\ UNCHANGED phase
    <3> DEFINE c == [root EXCEPT !.key = 0]
    <3>1. c \in Certificates /\ c.key = 0 /\ Keyed(c)
      BY <1>2 DEF Certificates, Keyed
    <3> QED
      BY <1>0, <2>1, <3>1
  <2>2. CASE file' = [file EXCEPT ![RootFile] = root] /\ phase' = "init_dh"
    BY <1>2, <2>2 DEF Keyed, Whole
  <2>3. CASE ~RootSaved /\ UNCHANGED file /\ phase' = "init_dh"
    <3> DEFINE c == file[RootFile]
    <3>1. c \in Certificates /\ Keyed(c) /\ file' = [file EXCEPT ![RootFile] = c]
      BY <1>0, <1>4, <2>3, FileNames DEF FilesInv
    <3> QED
      BY <2>3, <3>1
  <2> QED
    BY <2>1, <2>2, <2>3 DEF save_root_ca, Saves, RootSaved
<1>6. file'[RootFile] = c /\ \A f \in SiteFiles : file'[f] = file[f]
  BY <1>4, <1>5, FileNames, RootFileApart
<1>7. TypeOK'
  BY <1>0, <1>1, <1>4, <1>5, FileNames DEF TypeOK, Phases
<1>8. FilesInv'
  BY <1>0, <1>3, <1>5, <1>6, FileNames DEF FilesInv, Keyed
<1>9. RootInv' /\ SaveInv'
  BY <1>1, <1>2, <1>5, <1>6 DEF RootInv, SaveInv, Initialized, Whole
<1>10. CacheInv'
  BY <1>1, <1>c DEF CacheInv
<1> QED
  BY <1>7, <1>8, <1>9, <1>10 DEF CInv

LEMMA CrashCInv ==
  ASSUME CInv, Crash
  PROVE  CInv'
<1>0. TypeOK /\ FilesInv
  BY DEF CInv
<1>1. TypeOK'
  <2>1. /\ certificates' \in [CommonNames -> Certificates]
        /\ served' \in [host : Hosts \cup {<< >>}, cert : Certificates]
        /\ root' \in Certificates
    BY NoCertificateType DEF Crash
  <2>2. phase' \in Phases /\ dh' \in BOOLEAN /\ request' = << >>
    BY DEF Crash, Phases
  <2>3. crashes' \in Nat
    <3>1. crashes \in Nat /\ crashes' = crashes + 1
      BY <1>0 DEF TypeOK, Crash
    <3> QED
      BY <3>1
  <2> QED
    BY <1>0, <2>1, <2>2, <2>3 DEF TypeOK, Crash
<1>2. FilesInv'
  BY <1>0 DEF FilesInv, Crash, Keyed, Whole
<1>3. RootInv' /\ SaveInv'
  BY DEF RootInv, SaveInv, Crash, Initialized
<1>4. CacheInv'
  BY NoCertificateType DEF CacheInv, Crash
<1> QED
  BY <1>1, <1>2, <1>3, <1>4 DEF CInv

\* Writing a certificate the root has signed to the file of a site.
LEMMA SiteFileWritten ==
  ASSUME TypeOK, FilesInv, NEW f \in SiteFiles, NEW c \in Certificates, Keyed(c),
         RootSaved => Whole(file[RootFile]),
         RootSaved /\ c.pub # 0 => c.issuer = file[RootFile].pub,
         file' = [file EXCEPT ![f] = c]
  PROVE  /\ FilesInv' /\ file' \in [Files -> Certificates]
         /\ file'[f] = c /\ file'[RootFile] = file[RootFile]
<1>1. file \in [Files -> Certificates] /\ f \in Files /\ f # RootFile
  BY FileNames, RootFileApart DEF TypeOK
<1>2. file' \in [Files -> Certificates] /\ file'[f] = c
  BY <1>1
<1>3. \A g \in Files \ {f} : file'[g] = file[g]
  BY <1>1
<1>4. file'[RootFile] = file[RootFile]
  BY <1>1, <1>3, FileNames
<1> QED
  BY <1>2, <1>3, <1>4, FileNames DEF FilesInv, Whole, Keyed

LEMMA SaveSiteCInv ==
  ASSUME CInv, save_site
  PROVE  CInv'
<1> DEFINE cn == parse_common_name(request)
           f == get_certificate_filename(cn)
<1>0. TypeOK /\ FilesInv /\ RootInv /\ CacheInv /\ SaveInv /\ phase = "save_site"
  BY DEF CInv, save_site
<1>1. UNCHANGED <<dh_file, root, dh, certificates, keys, request, crashes>>
  BY DEF save_site
<1>2. /\ request \in Hosts /\ cn \in CommonNames /\ f \in SiteFiles
      /\ certificates[cn].pub # 0 /\ file[f].key = 0
  BY <1>0, Names DEF SaveInv
<1>3. Saves(f, certificates[cn], "site_save", Returns(request, certificates[cn]))
  BY DEF save_site
<1> HIDE DEF cn, f
<1>4. /\ certificates[cn] \in Certificates /\ Whole(certificates[cn])
      /\ RootSaved => certificates[cn].issuer = file[RootFile].pub /\ root = file[RootFile]
      /\ Whole(root)
  BY <1>0, <1>2 DEF TypeOK, CacheInv, RootInv, Initialized, Whole
<1>5. \/ phase' = phase /\ served' = served
      \/ phase' = "ready" /\ served' = [host |-> request, cert |-> certificates[cn]]
  BY <1>3 DEF Saves, Returns
<1>6. /\ FilesInv' /\ file' \in [Files -> Certificates] /\ file'[RootFile] = file[RootFile]
      /\ phase' = "save_site" => file'[f].key = 0
  <2> DEFINE c == [certificates[cn] EXCEPT !.key = 0]
  <2>1. CASE file' = [file EXCEPT ![f] = c]
             /\ UNCHANGED <<phase, served>>
    <3>1. /\ c \in Certificates /\ c.key = 0 /\ Keyed(c)
          /\ RootSaved => c.issuer = file[RootFile].pub
      BY <1>4 DEF Certificates, Keyed
    <3> HIDE DEF c
    <3> QED
      BY <1>0, <1>2, <1>4, <2>1, <3>1, SiteFileWritten
  <2>2. CASE file' = [file EXCEPT ![f] = certificates[cn]]
             /\ Returns(request, certificates[cn])
    <3>1. Keyed(certificates[cn])
      BY <1>4 DEF Keyed, Whole
    <3> QED
      BY <1>0, <1>2, <1>4, <2>2, <3>1, SiteFileWritten DEF Returns
  <2>3. CASE UNCHANGED file
    BY <1>0, <1>2, <2>3 DEF FilesInv, TypeOK, Keyed, Whole
  <2> QED
    BY <1>3, <2>1, <2>2, <2>3 DEF Saves
<1>7. TypeOK'
  BY <1>0, <1>1, <1>2, <1>4, <1>5, <1>6 DEF TypeOK, Phases
<1>8. RootInv' /\ CacheInv'
  BY <1>0, <1>1, <1>4, <1>5, <1>6 DEF RootInv, CacheInv, Initialized, Whole
<1>9. SaveInv'
  BY <1>1, <1>2, <1>6 DEF SaveInv, cn, f
<1> QED
  BY <1>6, <1>7, <1>8, <1>9 DEF CInv

LEMMA GetCertificateCInv ==
  ASSUME CInv, NEW host \in Hosts, get_certificate(host)
  PROVE  CInv'
<1> DEFINE cn == parse_common_name(host)
           f == get_certificate_filename(cn)
           cached == certificates[cn].pub # 0
           fresh == generate(cn, root.key)
<1>0. TypeOK /\ FilesInv /\ RootInv /\ CacheInv /\ phase = "ready"
  BY DEF CInv, get_certificate
<1>1. UNCHANGED <<dh_file, root, dh, crashes>> /\ request' = host
  BY DEF get_certificate
<1>2. cn \in CommonNames /\ f \in SiteFiles /\ f \in Files
  BY Names, FileNames
<1>3. \/ /\ cached
         /\ Returns(host, certificates[cn])
         /\ UNCHANGED <<certificates, file, keys>>
      \/ /\ ~cached /\ load_certificate(f)
         /\ certificates' = [certificates EXCEPT ![cn] = file[f]]
         /\ Returns(host, file[f])
         /\ UNCHANGED <<file, keys>>
      \/ /\ generate_key
         /\ certificates' = [certificates EXCEPT ![cn] = fresh]
         /\ \/ /\ file' = [file EXCEPT ![f] = NoCertificate]
               /\ phase' = "save_site"
               /\ UNCHANGED served
            \/ Returns(host, fresh) /\ UNCHANGED file
      \/ /\ Returns(host, file[f])
         /\ UNCHANGED <<certificates, file, keys>>
  BY DEF get_certificate
<1>s. SaveInv' \/ phase' = "save_site"
  BY DEF SaveInv
<1>h. phase' = "save_site" =>
        (SaveInv' <=> certificates'[cn].pub # 0 /\ file'[f].key = 0)
  BY <1>1 DEF SaveInv
<1> HIDE DEF cn, f
<1>4. /\ RootSaved => root = file[RootFile]
      /\ Whole(root) /\ root.pub \in Nat
      /\ certificates \in [CommonNames -> Certificates] /\ keys \in Nat
      /\ file \in [Files -> Certificates] /\ root.key = root.pub
  BY <1>0 DEF RootInv, Initialized, TypeOK, Whole, Certificates
<1>5. fresh \in Certificates /\ Whole(fresh) /\ fresh.issuer = root.pub
  BY <1>2, <1>4, GenerateType
<1> HIDE DEF fresh
\* What is cached, whichever way it comes.
<1>6. ASSUME NEW c \in Certificates, Whole(c), RootSaved => c.issuer = root.pub,
             certificates' = [certificates EXCEPT ![cn] = c],
             phase' \in {"ready", "save_site"}
      PROVE  CacheInv' /\ certificates' \in [CommonNames -> Certificates] /\ certificates'[cn] = c
  <2>1. certificates' \in [CommonNames -> Certificates] /\ certificates'[cn] = c
    BY <1>2, <1>4, <1>6
  <2>2. \A n \in CommonNames \ {cn} : certificates'[n] = certificates[n]
    BY <1>4, <1>6
  <2> QED
    BY <1>0, <1>1, <1>6, <2>1, <2>2 DEF CacheInv, Whole
<1>7. ASSUME NEW c \in Certificates, Returns(host, c)
      PROVE  /\ phase' = "ready" /\ SaveInv'
             /\ served' \in [host : Hosts \cup {<< >>}, cert : Certificates]
  BY <1>7, <1>s DEF Returns
<1>8. ASSUME file'[RootFile] = file[RootFile], phase' \in {"ready", "save_site"}
      PROVE  RootInv'
  BY <1>1, <1>4, <1>8 DEF RootInv, Initialized, Whole
<1>9. ASSUME UNCHANGED file
      PROVE  FilesInv' /\ file' \in [Files -> Certificates]
  BY <1>0, <1>4, <1>9 DEF FilesInv, Keyed, Whole
<1>10. ASSUME certificates' \in [CommonNames -> Certificates], phase' \in {"ready", "save_site"},
              file' \in [Files -> Certificates], keys' \in Nat,
              served' \in [host : Hosts \cup {<< >>}, cert : Certificates]
       PROVE  TypeOK'
  BY <1>0, <1>1, <1>10 DEF TypeOK, Phases
<1>11. file[f] \in Certificates /\ certificates[cn] \in Certificates
  BY <1>2, <1>4
<1>12. CASE Returns(host, certificates[cn]) /\ UNCHANGED <<certificates, file, keys>>
  <2>1. CacheInv'
    BY <1>0, <1>1, <1>12 DEF CacheInv, Returns
  <2> QED
    BY <1>4, <1>7, <1>8, <1>9, <1>10, <1>11, <1>12, <2>1 DEF CInv
<1>13. CASE Returns(host, file[f]) /\ UNCHANGED <<certificates, file, keys>>
  <2>1. CacheInv'
    BY <1>0, <1>1, <1>13 DEF CacheInv, Returns
  <2> QED
    BY <1>4, <1>7, <1>8, <1>9, <1>10, <1>11, <1>13, <2>1 DEF CInv
<1>14. CASE /\ ~cached /\ load_certificate(f)
            /\ certificates' = [certificates EXCEPT ![cn] = file[f]]
            /\ Returns(host, file[f])
            /\ UNCHANGED <<file, keys>>
  <2>1. Whole(file[f]) /\ (RootSaved => file[f].issuer = root.pub)
    BY <1>0, <1>2, <1>4, <1>14, LoadedWhole DEF FilesInv, Whole
  <2>2. phase' = "ready"
    BY <1>7, <1>11, <1>14
  <2>3. CacheInv' /\ certificates' \in [CommonNames -> Certificates]
    BY <1>6, <1>11, <1>14, <2>1, <2>2
  <2> QED
    BY <1>4, <1>7, <1>8, <1>9, <1>10, <1>11, <1>14, <2>3 DEF CInv
<1>15. CASE /\ generate_key
            /\ certificates' = [certificates EXCEPT ![cn] = fresh]
            /\ Returns(host, fresh) /\ UNCHANGED file
  <2>1. keys' \in Nat
    BY <1>4, <1>15 DEF generate_key
  <2>2. phase' = "ready"
    BY <1>5, <1>7, <1>15
  <2>3. CacheInv' /\ certificates' \in [CommonNames -> Certificates]
    BY <1>5, <1>6, <1>15, <2>2
  <2> QED
    BY <1>5, <1>7, <1>8, <1>9, <1>10, <1>15, <2>1, <2>3 DEF CInv
<1>16. CASE /\ generate_key
            /\ certificates' = [certificates EXCEPT ![cn] = fresh]
            /\ file' = [file EXCEPT ![f] = NoCertificate]
            /\ phase' = "save_site"
            /\ UNCHANGED served
  <2>1. keys' \in Nat
    BY <1>4, <1>16 DEF generate_key
  <2>2. CacheInv' /\ certificates' \in [CommonNames -> Certificates] /\ certificates'[cn] = fresh
    BY <1>5, <1>6, <1>16
  <2>3. Keyed(NoCertificate)
    BY NoCertificateType DEF Keyed
  <2>4. /\ FilesInv' /\ file' \in [Files -> Certificates]
        /\ file'[f] = NoCertificate /\ file'[RootFile] = file[RootFile]
    BY <1>0, <1>2, <1>4, <1>16, <2>3, NoCertificateType, SiteFileWritten
  <2>5. SaveInv'
    BY <1>5, <1>16, <1>h, <2>2, <2>4, NoCertificateType DEF Whole
  <2>6. TypeOK'
    BY <1>0, <1>10, <1>16, <2>1, <2>2, <2>4 DEF TypeOK
  <2> QED
    BY <1>8, <1>16, <2>2, <2>4, <2>5, <2>6 DEF CInv
<1> QED
  BY <1>3, <1>12, <1>13, <1>14, <1>15, <1>16

LEMMA NextCInv == CInv /\ [Next]_vars => CInv'
<1> SUFFICES ASSUME CInv, [Next]_vars PROVE CInv'
  OBVIOUS
<1>1. CASE UNCHANGED vars
  BY <1>1 DEF vars, CInv, TypeOK, FilesInv, RootInv, CacheInv, SaveInv, Initialized, Keyed, Whole
<1> QED
  BY <1>1, InitRootCInv, DhCInv, SaveRootCInv, SaveSiteCInv, GetCertificateCInv, CrashCInv DEF Next

\* Every state is one of the invariant's, whatever fails.
THEOREM CertificateInvariance == Spec => []CInv
<1>1. CInv /\ [Next]_vars => CInv'
  BY NextCInv
<1> QED
  BY <1>1, InitCInv, PTL DEF Spec

\* If the root CA can be saved, every certificate in the cache is signed by the
\* one in use, whichever process made it and wherever earlier processes ended.
THEOREM CertificatesSigned ==
  ASSUME "root_save" \notin Failing
  PROVE  Spec => []SignedByRoot
<1>1. CInv => SignedByRoot
  BY DEF CInv, CacheInv, SignedByRoot, RootSaved
<1> QED
  BY <1>1, CertificateInvariance, PTL

\* The root and all cached certificates have the private keys that belong to
\* them, whatever fails.
THEOREM CertificateKeys == Spec => []KeysMatch
<1>1. CInv => KeysMatch
  BY DEF CInv, RootInv, CacheInv, KeysMatch, Whole
<1> QED
  BY <1>1, CertificateInvariance, PTL

\* No step writes to a file that is complete, whatever fails, so the root CA is
\* the same in every process once it has been saved.
THEOREM CompleteFilesKept == Spec => FilesKept
<1> DEFINE Kept == \A f \in Files : file[f].key # 0 => file'[f] = file[f]
<1>1. CInv /\ [Next]_vars => [Kept]_vars
  <2> SUFFICES ASSUME CInv, Next, NEW g \in Files, file[g].key # 0
               PROVE  file'[g] = file[g]
    OBVIOUS
  <2>0. TypeOK /\ FilesInv /\ RootInv /\ SaveInv
    BY DEF CInv
  <2>1. file \in [Files -> Certificates] /\ file[g].pub # 0
    BY <2>0 DEF TypeOK, FilesInv, Keyed
  <2>2. ASSUME NEW f, NEW c, file[f].key = 0, file' = [file EXCEPT ![f] = c]
        PROVE  file'[g] = file[g]
    BY <2>1, <2>2
  <2>3. CASE init_root
    <3>1. CASE UNCHANGED file
      BY <3>1
    <3>2. CASE ~load_certificate(RootFile) /\ file' = [file EXCEPT ![RootFile] = NoCertificate]
      <4>1. g = RootFile => load_certificate(RootFile)
        BY <2>1 DEF load_certificate
      <4> QED
        BY <2>1, <3>2, <4>1
    <3> QED
      BY <2>3, <3>1, <3>2 DEF init_root, OpenFile
  <2>4. CASE init_dh \/ save_dh_parameters \/ Crash
    BY <2>4 DEF init_dh, save_dh_parameters, Crash
  <2>5. CASE save_root_ca
    <3>1. file[RootFile].key = 0
      BY <2>0, <2>5 DEF RootInv, save_root_ca
    <3> QED
      BY <2>2, <2>5, <3>1 DEF save_root_ca, Saves
  <2>6. CASE save_site
    <3> DEFINE cn == parse_common_name(request)
               f == get_certificate_filename(cn)
    <3>1. file[f].key = 0
      BY <2>0, <2>6 DEF SaveInv, save_site
    <3>2. Saves(f, certificates[cn], "site_save", Returns(request, certificates[cn]))
      BY <2>6 DEF save_site
    <3> HIDE DEF f, cn
    <3> QED
      BY <2>2, <3>1, <3>2 DEF Saves
  <2>7. ASSUME NEW host \in Hosts, get_certificate(host)
        PROVE  file'[g] = file[g]
    <3> DEFINE f == get_certificate_filename(parse_common_name(host))
    <3>1. \/ UNCHANGED file
          \/ ~load_certificate(f) /\ file' = [file EXCEPT ![f] = NoCertificate]
      BY <2>7 DEF get_certificate
    <3> HIDE DEF f
    <3>2. g = f => load_certificate(f)
      BY <2>1 DEF load_certificate
    <3> QED
      BY <2>1, <3>1, <3>2
  <2> QED
    BY <2>3, <2>4, <2>5, <2>6, <2>7 DEF Next
<1>2. Spec => []CInv
  BY CertificateInvariance
<1> QED
  BY <1>1, <1>2, PTL DEF Spec, FilesKept

-----------------------------------------------------------------------------
(* The names, whatever fails: every certificate is kept under its subject.  *)

\* The certificate in the file of a site has the name the file is called by.
NamedFor(f, c) ==
  f \in SiteFiles /\ c.pub # 0 => c.cn \in CommonNames /\ get_certificate_filename(c.cn) = f

FilesNamed == \A f \in Files : NamedFor(f, file[f])
CacheNamed == \A n \in CommonNames : certificates[n].pub # 0 => certificates[n].cn = n
ServedNamed ==
  served.cert.pub # 0 => served.host \in Hosts /\ served.cert.cn = parse_common_name(served.host)
NamesInv ==
  TypeOK /\ FilesNamed /\ CacheNamed /\ ServedNamed /\ (phase = "save_site" => request \in Hosts)

\* A sequence with its first element replaced.
LEMMA Headed ==
  ASSUME NEW T, NEW x \in T, NEW s \in Seq(T), Len(s) > 0
  PROVE  /\ <<x>> \o Tail(s) \in Seq(T) /\ Len(<<x>> \o Tail(s)) = Len(s)
         /\ (<<x>> \o Tail(s))[1] = x
         /\ \A i \in 2..Len(s) : (<<x>> \o Tail(s))[i] = s[i]
<1>1. <<x>> \in Seq(T) /\ Tail(s) \in Seq(T) /\ Len(Tail(s)) = Len(s) - 1
  OBVIOUS
<1> QED
  BY <1>1

\* The labels of hosts, common names and file names.
Label == STRING \cup {"*", "^"}
LEMMA HostLabels == Hosts \subseteq Seq(Label)
<1> SUFFICES ASSUME NEW h \in Hosts PROVE h \in Seq(Label)
  OBVIOUS
<1>1. h \in Seq(STRING)
  BY CertificateAssumption
<1>2. Len(h) \in Nat /\ h \in [1..Len(h) -> STRING]
  BY <1>1
<1>3. h \in [1..Len(h) -> Label]
  BY <1>2 DEF Label
<1> QED
  BY <1>2, <1>3

\* Two common names never share a file: no host begins with the "^" that
\* stands for "*" in a file name.
LEMMA FilenamesDiffer ==
  ASSUME NEW m \in CommonNames, NEW n \in CommonNames,
         get_certificate_filename(m) = get_certificate_filename(n)
  PROVE  m = n
<1>1. ASSUME NEW c \in CommonNames
      PROVE  c \in Seq(Label) /\ Len(c) > 0 /\ c[1] # "^"
  <2>1. PICK h \in Hosts : c = parse_common_name(h)
    BY DEF CommonNames
  <2>2. h \in Seq(Label) /\ h # << >> /\ h[1] # "^"
    BY CertificateAssumption, HostLabels
  <2>3. CASE c = h
    BY <2>2, <2>3
  <2>4. CASE c = <<"*">> \o Tail(h)
    <3>1. "*" \in Label /\ "*" # "^"
      BY DEF Label
    <3>2. Len(h) > 0
      BY <2>2
    <3> QED
      BY <2>2, <2>4, <3>1, <3>2, Headed
  <2> QED
    BY <2>1, <2>3, <2>4 DEF parse_common_name
<1>2. ASSUME NEW s \in Seq(Label), NEW t \in Seq(Label), Len(s) > 0, Len(t) > 0, s[1] = t[1],
             <<"^">> \o Tail(s) = <<"^">> \o Tail(t)
      PROVE  s = t
  <2> DEFINE u == <<"^">> \o Tail(s)
             v == <<"^">> \o Tail(t)
  <2>1. Len(u) = Len(s) /\ \A i \in 2..Len(s) : u[i] = s[i]
    BY <1>2
  <2>2. Len(v) = Len(t) /\ \A i \in 2..Len(t) : v[i] = t[i]
    BY <1>2
  <2>3. u = v
    BY <1>2
  <2> HIDE DEF u, v
  <2>4. Len(s) = Len(t) /\ \A i \in 1..Len(s) : s[i] = t[i]
    BY <2>1, <2>2, <2>3, <1>2
  <2> QED
    BY <2>4
<1>3. m \in Seq(Label) /\ Len(m) > 0 /\ m[1] # "^" /\ n \in Seq(Label) /\ Len(n) > 0 /\ n[1] # "^"
  BY <1>1
<1>4. ASSUME NEW s \in Seq(Label)
      PROVE  (<<"^">> \o Tail(s))[1] = "^"
  OBVIOUS
<1>5. CASE m[1] = "*" /\ n[1] = "*"
  BY <1>2, <1>3, <1>5 DEF get_certificate_filename
<1>6. CASE m[1] = "*" /\ n[1] # "*"
  BY <1>3, <1>4, <1>6 DEF get_certificate_filename
<1>7. CASE m[1] # "*" /\ n[1] = "*"
  BY <1>3, <1>4, <1>7 DEF get_certificate_filename
<1>8. CASE m[1] # "*" /\ n[1] # "*"
  BY <1>8 DEF get_certificate_filename
<1> QED
  BY <1>5, <1>6, <1>7, <1>8

\* The common name made for a host is one a certificate for it may have.
LEMMA CommonNameMatches ==
  ASSUME NEW h \in Hosts
  PROVE  Matches(parse_common_name(h), h)
<1>1. h \in Seq(Label)
  BY HostLabels
<1>2. CASE Len(h) < 3 \/ h[Len(h) - 1] \in Short
  BY <1>2 DEF Matches, parse_common_name
<1>3. CASE ~(Len(h) < 3 \/ h[Len(h) - 1] \in Short)
  <2> DEFINE c == <<"*">> \o Tail(h)
  <2>1. Len(h) \in Nat /\ Len(h) > 2 /\ h[Len(h) - 1] \notin Short
    BY <1>1, <1>3
  <2>2. c[1] = "*" /\ Len(c) = Len(h) /\ c \in Seq(Label)
    <3>1. "*" \in Label
      BY DEF Label
    <3>2. Len(h) > 0
      BY <2>1
    <3> QED
      BY <1>1, <3>1, <3>2, Headed
  <2>3. Tail(c) = Tail(h)
    BY <1>1, <2>1
  <2>4. c[Len(c) - 1] = h[Len(h) - 1]
    BY <1>1, <2>1
  <2>5. parse_common_name(h) = c
    BY <1>3 DEF parse_common_name
  <2> HIDE DEF c
  <2> QED
    BY <2>1, <2>2, <2>3, <2>4, <2>5 DEF Matches
<1> QED
  BY <1>2, <1>3

\* A file written with a certificate of its own name, or with none.
LEMMA FileNamed ==
  ASSUME TypeOK, FilesNamed, NEW f \in Files, NEW c \in Certificates, NamedFor(f, c),
         file' = [file EXCEPT ![f] = c]
  PROVE  file' \in [Files -> Certificates] /\ FilesNamed'
<1>1. file \in [Files -> Certificates]
  BY DEF TypeOK
<1>2. file' \in [Files -> Certificates] /\ \A g \in Files : file'[g] = IF g = f THEN c ELSE file[g]
  BY <1>1
<1>3. FilesNamed' <=> \A g \in Files : NamedFor(g, file'[g])
  BY DEF FilesNamed, NamedFor
<1> QED
  BY <1>2, <1>3 DEF FilesNamed

\* Nothing is named by a certificate that is not there, and the root's file
\* may hold any.
LEMMA NamedTrivially ==
  /\ \A f : NamedFor(f, NoCertificate)
  /\ \A c : NamedFor(RootFile, c)
BY NoCertificateType, RootFileApart DEF NamedFor

\* A certificate without its key is one still, with the same name.
LEMMA WithoutKey ==
  ASSUME NEW c \in Certificates
  PROVE  /\ [c EXCEPT !.key = 0] \in Certificates
         /\ [c EXCEPT !.key = 0].pub = c.pub /\ [c EXCEPT !.key = 0].cn = c.cn
BY DEF Certificates

LEMMA InitNames == Init => NamesInv
<1> SUFFICES ASSUME Init PROVE NamesInv
  OBVIOUS
<1>1. TypeOK
  BY InitCInv DEF CInv
<1>2. FilesNamed
  BY NamedTrivially DEF Init, FilesNamed
<1>3. CacheNamed /\ ServedNamed
  BY NoCertificateType DEF Init, CacheNamed, ServedNamed
<1>4. phase # "save_site"
  BY DEF Init
<1> QED
  BY <1>1, <1>2, <1>3, <1>4 DEF NamesInv

\* Starting a process and saving the root CA touch no name but the root's.
LEMMA RootNames ==
  ASSUME NamesInv, init_root \/ save_root_ca
  PROVE  NamesInv'
<1>0. TypeOK /\ FilesNamed /\ CacheNamed /\ ServedNamed
  BY DEF NamesInv
<1>1. UNCHANGED <<dh_file, dh, certificates, request, served, crashes>>
      /\ phase' \in {"init_dh", "save_root"}
  BY DEF init_root, save_root_ca, OpenFile, Saves
<1>2. file \in [Files -> Certificates] /\ root \in Certificates /\ keys \in Nat /\ RootFile \in Files
  BY <1>0, FileNames DEF TypeOK
<1>3. keys' \in Nat /\ root' \in Certificates
  <2>1. generate(RootFile, keys + 1) \in Certificates /\ keys + 1 \in Nat
    <3>1. keys + 1 \in Nat /\ RootFile \in CommonNames \cup {RootFile}
      BY <1>2
    <3> QED
      BY <3>1, <1>2, GenerateType
  <2>2. \/ keys' = keys /\ root' = root
        \/ keys' = keys /\ root' = file[RootFile]
        \/ keys' = keys + 1 /\ root' = generate(RootFile, keys + 1)
    BY DEF init_root, save_root_ca, generate_key
  <2> QED
    BY <2>1, <2>2, <1>2
<1>4. file' \in [Files -> Certificates] /\ FilesNamed'
  <2>1. CASE UNCHANGED file
    BY <2>1, <1>0, <1>2 DEF FilesNamed, NamedFor
  <2>2. ASSUME NEW c \in Certificates, file' = [file EXCEPT ![RootFile] = c]
        PROVE  file' \in [Files -> Certificates] /\ FilesNamed'
    BY <2>2, <1>0, <1>2, FileNamed, NamedTrivially
  <2>3. /\ NoCertificate \in Certificates /\ root \in Certificates
        /\ [root EXCEPT !.key = 0] \in Certificates
    BY <1>2, NoCertificateType, WithoutKey
  <2>4. \/ UNCHANGED file
        \/ file' = [file EXCEPT ![RootFile] = NoCertificate]
        \/ file' = [file EXCEPT ![RootFile] = [root EXCEPT !.key = 0]]
        \/ file' = [file EXCEPT ![RootFile] = root]
    BY DEF init_root, save_root_ca, OpenFile, Saves
  <2> QED
    BY <2>1, <2>2, <2>3, <2>4
<1>5. TypeOK'
  BY <1>0, <1>1, <1>3, <1>4 DEF TypeOK, Phases
<1>6. CacheNamed' /\ ServedNamed'
  BY <1>0, <1>1 DEF CacheNamed, ServedNamed
<1> QED
  BY <1>1, <1>4, <1>5, <1>6 DEF NamesInv

LEMMA DhNames ==
  ASSUME NamesInv, init_dh \/ save_dh_parameters
  PROVE  NamesInv'
<1>0. TypeOK /\ FilesNamed /\ CacheNamed /\ ServedNamed
  BY DEF NamesInv
<1>1. /\ UNCHANGED <<file, root, certificates, keys, request, served, crashes>>
      /\ phase' \in {"save_dh", "ready"} /\ dh' \in BOOLEAN /\ dh_file' \in BOOLEAN
  BY <1>0 DEF init_dh, save_dh_parameters, TypeOK
<1>2. TypeOK'
  BY <1>0, <1>1 DEF TypeOK, Phases
<1>3. FilesNamed' /\ CacheNamed' /\ ServedNamed'
  BY <1>0, <1>1 DEF FilesNamed, NamedFor, CacheNamed, ServedNamed
<1> QED
  BY <1>1, <1>2, <1>3 DEF NamesInv

LEMMA CrashNames ==
  ASSUME NamesInv, Crash
  PROVE  NamesInv'
<1>0. TypeOK /\ FilesNamed
  BY DEF NamesInv
<1>1. TypeOK'
  <2>1. /\ certificates' \in [CommonNames -> Certificates]
        /\ served' \in [host : Hosts \cup {<< >>}, cert : Certificates]
        /\ root' \in Certificates
    BY NoCertificateType DEF Crash
  <2>2. phase' \in Phases /\ dh' \in BOOLEAN /\ request' = << >>
    BY DEF Crash, Phases
  <2>3. crashes \in Nat /\ crashes' = crashes + 1
    BY <1>0 DEF TypeOK, Crash
  <2>4. crashes' \in Nat
    BY <2>3
  <2> QED
    BY <1>0, <2>1, <2>2, <2>4 DEF TypeOK, Crash
<1>2. FilesNamed'
  BY <1>0 DEF FilesNamed, NamedFor, Crash
<1>3. CacheNamed' /\ ServedNamed' /\ phase' = "down"
  BY NoCertificateType DEF CacheNamed, ServedNamed, Crash
<1> QED
  BY <1>1, <1>2, <1>3 DEF NamesInv

\* A certificate returned for a host has the host's common name, or is none.
LEMMA ReturnedNamed ==
  ASSUME NEW h \in Hosts, NEW c \in Certificates, Returns(h, c),
         c.pub # 0 => c.cn = parse_common_name(h)
  PROVE  /\ ServedNamed' /\ phase' = "ready"
         /\ served' \in [host : Hosts \cup {<< >>}, cert : Certificates]
<1>1. phase' = "ready" /\ served' = [host |-> h, cert |-> c]
  BY DEF Returns
<1>2. served' \in [host : Hosts \cup {<< >>}, cert : Certificates]
      /\ served'.host = h /\ served'.cert = c
  BY <1>1
<1> QED
  BY <1>1, <1>2 DEF ServedNamed

LEMMA SaveSiteNames ==
  ASSUME NamesInv, save_site
  PROVE  NamesInv'
<1> DEFINE cn == parse_common_name(request)
           f == get_certificate_filename(cn)
           c == certificates[cn]
<1>0. TypeOK /\ FilesNamed /\ CacheNamed /\ ServedNamed /\ request \in Hosts /\ phase = "save_site"
  BY DEF NamesInv, save_site
<1>1. UNCHANGED <<dh_file, root, dh, certificates, keys, request, crashes>>
  BY DEF save_site
<1>2. cn \in CommonNames /\ f \in SiteFiles /\ f \in Files
  BY <1>0, Names, FileNames
<1>3. Saves(f, c, "site_save", Returns(request, c))
  BY DEF save_site
<1>4. c \in Certificates /\ (c.pub # 0 => c.cn = cn)
  BY <1>0, <1>2 DEF TypeOK, CacheNamed
<1>5. NamedFor(f, c) /\ NamedFor(f, [c EXCEPT !.key = 0]) /\ [c EXCEPT !.key = 0] \in Certificates
  <2>1. NamedFor(f, c)
    BY <1>2, <1>4 DEF NamedFor
  <2> HIDE DEF f, c, cn
  <2>2. [c EXCEPT !.key = 0].pub = c.pub /\ [c EXCEPT !.key = 0].cn = c.cn
        /\ [c EXCEPT !.key = 0] \in Certificates
    BY <1>4, WithoutKey
  <2> QED
    BY <2>1, <2>2 DEF NamedFor
<1>6. Returns(request, c) =>
        /\ ServedNamed' /\ phase' = "ready"
        /\ served' \in [host : Hosts \cup {<< >>}, cert : Certificates]
  BY <1>0, <1>4, ReturnedNamed
<1> HIDE DEF f, c, cn
<1>7. /\ ServedNamed' /\ phase' \in {"ready", "save_site"}
      /\ served' \in [host : Hosts \cup {<< >>}, cert : Certificates]
  <2>1. Returns(request, c) \/ UNCHANGED <<phase, served>>
    BY <1>3 DEF Saves
  <2>2. UNCHANGED <<phase, served>> =>
          /\ ServedNamed' /\ phase' \in {"ready", "save_site"}
          /\ served' \in [host : Hosts \cup {<< >>}, cert : Certificates]
    BY <1>0 DEF ServedNamed, TypeOK
  <2> QED
    BY <2>1, <2>2, <1>6
<1>8. file' \in [Files -> Certificates] /\ FilesNamed'
  <2>1. CASE UNCHANGED file
    BY <2>1, <1>0 DEF FilesNamed, NamedFor, TypeOK
  <2>2. CASE file' = [file EXCEPT ![f] = [c EXCEPT !.key = 0]]
    BY <2>2, <1>0, <1>2, <1>5, FileNamed
  <2>3. CASE file' = [file EXCEPT ![f] = c]
    BY <2>3, <1>0, <1>2, <1>4, <1>5, FileNamed
  <2> QED
    BY <2>1, <2>2, <2>3, <1>3 DEF Saves
<1>9. TypeOK'
  BY <1>0, <1>1, <1>7, <1>8 DEF TypeOK, Phases
<1>10. CacheNamed' /\ request' \in Hosts
  BY <1>0, <1>1 DEF CacheNamed
<1> QED
  BY <1>7, <1>8, <1>9, <1>10 DEF NamesInv

LEMMA GetCertificateNames ==
  ASSUME NamesInv, NEW host \in Hosts, get_certificate(host)
  PROVE  NamesInv'
<1> DEFINE cn == parse_common_name(host)
           f == get_certificate_filename(cn)
           fresh == generate(cn, root.key)
<1>0. TypeOK /\ FilesNamed /\ CacheNamed /\ ServedNamed
  BY DEF NamesInv
<1>1. UNCHANGED <<dh_file, root, dh, crashes>> /\ request' = host
  BY DEF get_certificate
<1>2. cn \in CommonNames /\ f \in SiteFiles /\ f \in Files
  BY Names, FileNames
<1>3. /\ certificates \in [CommonNames -> Certificates] /\ file \in [Files -> Certificates]
      /\ keys \in Nat /\ root.key \in Nat
      /\ certificates[cn] \in Certificates /\ file[f] \in Certificates
  BY <1>0, <1>2 DEF TypeOK, Certificates
<1>4. certificates[cn].pub # 0 => certificates[cn].cn = cn
  BY <1>0, <1>2 DEF CacheNamed
<1>5. file[f].pub # 0 => file[f].cn = cn
  BY <1>0, <1>2, FilenamesDiffer DEF FilesNamed, NamedFor
<1>6. fresh \in Certificates /\ fresh.cn = cn
  <2>1. fresh.cn = cn
    BY DEF generate
  <2> QED
    BY <2>1, <1>2, <1>3, GenerateType
<1>7. \E c \in {certificates[cn], file[f], fresh} :
        /\ \/ UNCHANGED certificates
           \/ certificates' = [certificates EXCEPT ![cn] = c]
        /\ \/ Returns(host, c) /\ UNCHANGED file
           \/ /\ file' = [file EXCEPT ![f] = NoCertificate]
              /\ phase' = "save_site" /\ UNCHANGED served
  BY DEF get_certificate
<1>8. keys' \in Nat
  BY <1>3 DEF get_certificate, generate_key
<1> DEFINE fits(c) == c \in Certificates /\ (c.pub # 0 => c.cn = cn)
<1>9. fits(certificates[cn]) /\ fits(file[f]) /\ fits(fresh)
  BY <1>3, <1>4, <1>5, <1>6
<1> HIDE DEF f, fresh
<1>10. PICK c : /\ fits(c)
                /\ \/ UNCHANGED certificates
                   \/ certificates' = [certificates EXCEPT ![cn] = c]
                /\ \/ Returns(host, c) /\ UNCHANGED file
                   \/ /\ file' = [file EXCEPT ![f] = NoCertificate]
                      /\ phase' = "save_site" /\ UNCHANGED served
  <2> HIDE DEF fits, cn
  <2> QED
    BY <1>7, <1>9
<1>11. /\ ServedNamed' /\ phase' \in {"ready", "save_site"}
       /\ served' \in [host : Hosts \cup {<< >>}, cert : Certificates]
  <2>1. CASE Returns(host, c)
    BY <2>1, <1>10, ReturnedNamed
  <2>2. CASE phase' = "save_site" /\ UNCHANGED served
    BY <2>2, <1>0 DEF ServedNamed, TypeOK
  <2> QED
    BY <2>1, <2>2, <1>10
<1> HIDE DEF cn
<1>12. file' \in [Files -> Certificates] /\ FilesNamed'
  <2>1. CASE UNCHANGED file
    BY <2>1, <1>0, <1>3 DEF FilesNamed, NamedFor
  <2>2. CASE file' = [file EXCEPT ![f] = NoCertificate]
    BY <2>2, <1>0, <1>2, FileNamed, NamedTrivially, NoCertificateType
  <2> QED
    BY <2>1, <2>2, <1>10
<1>13. certificates' \in [CommonNames -> Certificates] /\ CacheNamed'
  <2>1. CASE UNCHANGED certificates
    BY <2>1, <1>0, <1>3 DEF CacheNamed
  <2>2. CASE certificates' = [certificates EXCEPT ![cn] = c]
    BY <2>2, <1>0, <1>2, <1>3, <1>10 DEF CacheNamed
  <2> QED
    BY <2>1, <2>2, <1>10
<1>14. TypeOK'
  BY <1>0, <1>1, <1>8, <1>11, <1>12, <1>13 DEF TypeOK, Phases
<1> QED
  BY <1>1, <1>11, <1>12, <1>13, <1>14 DEF NamesInv

\* Every certificate is kept and returned under its own name, whatever fails
\* and wherever a process ends.
THEOREM NamesInvariance == Spec => []NamesInv
<1>1. NamesInv /\ [Next]_vars => NamesInv'
  <2> SUFFICES ASSUME NamesInv, [Next]_vars PROVE NamesInv'
    OBVIOUS
  <2>1. CASE UNCHANGED vars
    BY <2>1 DEF vars, NamesInv, TypeOK, FilesNamed, CacheNamed, ServedNamed, NamedFor
  <2> QED
    BY <2>1, RootNames, DhNames, CrashNames, SaveSiteNames, GetCertificateNames DEF Next
<1> QED
  BY <1>1, InitNames, PTL DEF Spec

\* Every variable of certificate_manager has its type, whatever fails.
THEOREM CertificateTypes == Spec => []TypeOK
<1>1. NamesInv => TypeOK
  BY DEF NamesInv
<1> QED
  BY <1>1, NamesInvariance, PTL

\* get_certificate: the certificate returned is one for the host it was asked
\* for, also when it was cached, or saved by an earlier process, for another
\* host; a wildcard in it stands for one label and not for all of a suffix.
THEOREM CertificateFitsHost == Spec => []CertificateFits
<1>1. NamesInv => CertificateFits
  BY CommonNameMatches DEF NamesInv, ServedNamed, CertificateFits
<1> QED
  BY <1>1, NamesInvariance, PTL
=============================================================================
