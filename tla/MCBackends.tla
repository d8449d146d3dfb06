----------------------------- MODULE MCBackends -----------------------------
EXTENDS Backends

AllKinds == {"ssh", "slurm", "kaggle", "colab", "market"}

=============================================================================
