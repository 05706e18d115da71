---------------------------- MODULE MCPackaging ----------------------------
(* Two images, packaged in any two of the formats.                         *)
EXTENDS Packaging

\* With a descriptor and without one, compressed or not; one that fails, and
\* one that is not known.
AllAsks ==
  {<<"vsphere", "vsphere">>, <<"vsphere", "vagrant-virtualbox">>,
   <<"vsphere", "vagrant-vmware-fusion">>, <<"rhevm", "rhevm">>,
   <<"rhevm", "vagrant-libvirt">>, <<"hyperv", "hyperv">>, <<"vsphere", "rhevm">>}
=============================================================================
