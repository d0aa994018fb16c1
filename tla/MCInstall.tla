------------------------------ MODULE MCInstall ------------------------------
(***************************************************************************)
(* What an installation owes its operator (see Install), for TLC.          *)
(***************************************************************************)
EXTENDS Install

\* The build has nothing left to do to this image: the bootstrap wrapper is in it, and
\* the Python packages too, if it has a pip and guest-requirements.txt asks for any.
Finished(i) == i.stage = IF i.pip THEN "ready" ELSE "injected"

\* aws_baseimage.ext4 is never a half-built image: under that name there is only a
\* finished one, and none whose pip failed, wherever builds failed, were interrupted
\* or went down with the host; and a build that ends without a crash of the host
\* leaves no unfinished one behind, under the other name.
PublishedIsComplete ==
  /\ image # NoImage => Finished(image)
  /\ pc = "idle" /\ partial # NoImage => crashes > 0

\* An operator who runs download and build in turn gets an image, whatever failed,
\* was interrupted or crashed before, and gets it again after deleting it: none of
\* the leftovers that make a stage be skipped blocks it for ever.
ImageAgain == []<>(image # NoImage)

\* "Every stage is skipped if its output already exists, so the script is safe to
\* re-run": the image that comes of running it again holds every layer, whole.
RerunIsSafe == image # NoImage => image.layers = "full"

\* install_verify.sh "verifies that all required artifacts are present and valid": an
\* installation it accepts has a rootfs image, and kernel and binaries that are whole.
VerifiedIsValid ==
  verdict = "pass" =>
    /\ image # NoImage /\ art["kernel"] = "full"
    /\ \A b \in Binaries : (IF bin[b] = "none" THEN inFolder[b] ELSE bin[b]) = "full"
=============================================================================
