---------------------------- MODULE Verification ----------------------------
(***************************************************************************)
(* The core library shared by the clients and the receiver: certificates   *)
(* (core/certutil), PDF signing (core/signing) and PDF verification        *)
(* (core/verification), as operators.                                      *)
(*                                                                         *)
(* A PEM file is the sequence of its certificates.  A certificate names    *)
(* its key, the authority that issued it (an authority is a root and the   *)
(* one intermediate under it) and whether it is a CA certificate.  Device  *)
(* certificates carry the document signing usage and CA certificates do    *)
(* not.  Every key is ML-DSA-65: the key generator makes no other and      *)
(* every parser refuses any other.  Validity periods are left out.         *)
(***************************************************************************)
EXTENDS Integers, Sequences

CONSTANTS
  MaxPDFBytes,     \* ceiling of SignPDF and of VerifyPDF
  SignatureBytes   \* what a signature adds to a document

ASSUME VerificationAssumption ==
  MaxPDFBytes \in Nat /\ SignatureBytes \in Nat \ {0}

-----------------------------------------------------------------------------
(* Certificates *)

CertificateType(keys, authorities) ==
  [key : keys, issuer : authorities, ca : BOOLEAN]

\* The leaf that bindIssuedCert accepts, and the intermediate of an authority.
DeviceCertificate(k, authority) == [key |-> k, issuer |-> authority, ca |-> FALSE]
IntermediateCertificate(caKey, authority) == [key |-> caKey, issuer |-> authority, ca |-> TRUE]

\* ParseChainPEM refuses a file without certificates, ParseCertificatePEM takes
\* the first one.
ParseChainPEM(pem) == pem # <<>>
ParseCertificatePEM(pem) == Head(pem)

HasDocumentSigningEKU(certificate) == ~certificate.ca

ParseAndValidateCertificate(pem) ==
  /\ ParseChainPEM(pem)
  /\ ~ParseCertificatePEM(pem).ca
  /\ HasDocumentSigningEKU(ParseCertificatePEM(pem))

SameKeyPair(key, certificate) == certificate.key = key

\* The chain x509 builds, here and in the PDF library: the leaf, one of the
\* intermediates at hand, and the root the caller trusts.
ValidateCertificateChain(leaf, intermediates, root) ==
  /\ leaf.issuer = root
  /\ \E i \in 1..Len(intermediates) :
       intermediates[i].ca /\ intermediates[i].issuer = leaf.issuer

\* A certificate request names a key and is signed with one; the receiver takes
\* it as proof that the sender has the key.
CreateDeviceCSR(key) == [publicKey |-> key, signedBy |-> key]
ParseAndValidateCSR(csr) == SameKeyPair(csr.signedBy, [key |-> csr.publicKey])

-----------------------------------------------------------------------------
(* Signing: a document is its size and its signatures *)

DocumentType(certificates) ==
  [size : Nat, signatures : Seq([leaf : certificates, chain : Seq(certificates)])]

\* Mutant: the key is not compared with the leaf's.
SignsWithAnyKey(doc, key, chain) ==
  doc.size <= MaxPDFBytes /\ ParseChainPEM(chain) /\ HasDocumentSigningEKU(Head(chain))

\* signPDF refuses a key that is not the leaf's and a leaf that may not sign
\* documents; the input may be at the ceiling, the output is larger.
SignsPDF(doc, key, chain) ==
  /\ doc.size <= MaxPDFBytes
  /\ ParseChainPEM(chain)
  /\ SameKeyPair(key, Head(chain))
  /\ HasDocumentSigningEKU(Head(chain))

SignPDF(doc, chain) ==
  [size |-> doc.size + SignatureBytes,
   signatures |-> Append(doc.signatures, [leaf |-> Head(chain), chain |-> Tail(chain)])]

-----------------------------------------------------------------------------
(* Verification *)

\* verifyPDF: a document without signatures is not valid.  Callers here pass no
\* CRL; the receiver's check against its CRL is in Submission.tla.
AllSignaturesValid(doc, root) ==
  /\ doc.signatures # <<>>
  /\ \A i \in 1..Len(doc.signatures) :
       ValidateCertificateChain(doc.signatures[i].leaf, doc.signatures[i].chain, root)

\* VerifyPDF: what is over the ceiling is an error, not a verdict.
VerifyPDF(doc, root) == doc.size <= MaxPDFBytes /\ AllSignaturesValid(doc, root)

ListPDFSignatures(doc) == doc.signatures
=============================================================================
